---------------------------- MODULE Spec2Model ----------------------------
(***************************************************************************)
(* DocFetch (fullerstack-io/vscode-extension, extensions/docfetch).        *)
(*                                                                         *)
(* The document store (storage/docs-manager.ts: DocsManager) and the       *)
(* commands that drive it (commands/fetchByUrl.ts, the sync commands       *)
(* syncDocument / syncAllDocuments / syncSingleDocument, and               *)
(* commands/searchDocuments.ts: fetchAndSaveDocument).                     *)
(*                                                                         *)
(* Strings are sequences of one-character strings, so that                 *)
(* sanitizeFilename is computed character by character as the regular      *)
(* expressions of the source compute it.  A store call is one step; a bulk *)
(* sync is a process of several steps (snapshot, confirmation, one step    *)
(* per document) between which the other commands may run.                 *)
(***************************************************************************)
EXTENDS Naturals, Sequences, FiniteSets

VARIABLES
    index,          \* MetadataIndex.documents of .docfetch-metadata.json
    files,          \* relative path -> content of the Markdown file, or NoFile
    remote,         \* the remote wiki: remote id -> current page
    connConfigured, \* the connection "k1" is present in docfetch.connections
    authenticated,  \* credentials for "k1" are in the credential store
    nextId,         \* number of the next crypto.randomUUID()
    bulk,           \* the running syncAllDocuments, if any
    last,           \* the operation that ran last, its arguments and outcome
    tasks,          \* store mutations in flight, each at one of its awaits
    text            \* a string handed to a pure function, and its result

vars == <<index, files, remote, connConfigured, authenticated, nextId,
          bulk, last, tasks, text>>

-----------------------------------------------------------------------------
(* Bounds of the model *)

MaxIds == 2        \* local ids (saves) per behaviour
MaxVersion == 2    \* highest remote version
MaxTitleLen == 3   \* length of the short titles given to sanitizeFilename
MaxPieces == 3     \* pieces of the Markdown given to postprocess
MaxRows == 2       \* rows in each section of a table
MaxCells == 2      \* cells in each row of a table
MaxDepth == 3      \* macros nested in each other
MaxFieldLen == 1   \* characters in each field of a header
MaxLabels == 1     \* labels of a document
MaxRetryAfter == 2 \* seconds in a Retry-After header
MaxCalls == 3      \* calls of a debounced function
MaxClock == 5      \* ticks of the clock
Delay == 2         \* ticks of the debounce delay
MaxInFlight == 2   \* search requests awaiting their response

(* Program constants *)

MaxFilenameLen == 100

-----------------------------------------------------------------------------
(* Input alphabets *)

RemoteIds == {"r1", "r2"}
Categories == {"guides", "api"}
ConnectionId == "k1"

TitleSlash == <<"a", "/", "b">>
TitleColon == <<"a", ":", "b">>
TitlePlain == <<"c">>
Titles == {TitleSlash, TitleColon, TitlePlain}

\* the edits made to the pages: the title and the labels after an edit
Retitle(title) ==
    IF title = TitleSlash THEN TitlePlain
    ELSE IF title = TitlePlain THEN TitleColon
    ELSE TitleSlash

Relabel(labels) == IF labels = << >> THEN <<"x">> ELSE << >>

\* the values new Date() takes
Times == {0, 1}

-----------------------------------------------------------------------------
(* Sequence helpers *)

Min(a, b) == IF a <= b THEN a ELSE b

\* Array.prototype.findIndex, 1-based; 0 stands for -1
FindIndex(seq, Test(_)) ==
    IF \E i \in 1..Len(seq) : Test(seq[i])
    THEN CHOOSE i \in 1..Len(seq) :
            /\ Test(seq[i])
            /\ \A j \in 1..(i - 1) : ~Test(seq[j])
    ELSE 0

\* Array.prototype.splice(i, 1)
Splice(seq, i) == SubSeq(seq, 1, i - 1) \o SubSeq(seq, i + 1, Len(seq))

-----------------------------------------------------------------------------
(* DocsManager.sanitizeFilename *)

SpecialChars == {"/", "\\", ":", "*", "?", "\"", "<", ">", "|"}
Whitespace == {" ", "\t", "\n"}

\* .replace(/[/\\:*?"<>|]/g, '-')
ReplaceSpecial(s) ==
    [i \in 1..Len(s) |-> IF s[i] \in SpecialChars THEN "-" ELSE s[i]]

\* the characters of s at the positions in K, in order
Pick(s, K) ==
    [j \in 1..Cardinality(K) |->
        s[CHOOSE i \in K : Cardinality({h \in K : h <= i}) = j]]

\* .replace(/-+/g, '-'): one dash is left of each run of dashes
CollapseDashes(s) ==
    Pick(s, {i \in 1..Len(s) : ~(s[i] = "-" /\ i > 1 /\ s[i - 1] = "-")})

\* .replace(/^-|-$/g, ''): one dash at the start, one dash at the end
StripEdgeDashes(s) ==
    LET a == IF Len(s) > 0 /\ s[1] = "-" THEN Tail(s) ELSE s
    IN  IF Len(a) > 0 /\ a[Len(a)] = "-" THEN SubSeq(a, 1, Len(a) - 1) ELSE a

\* .trim()
RECURSIVE TrimStart(_)
TrimStart(s) ==
    IF Len(s) > 0 /\ s[1] \in Whitespace THEN TrimStart(Tail(s)) ELSE s

RECURSIVE TrimEnd(_)
TrimEnd(s) ==
    IF Len(s) > 0 /\ s[Len(s)] \in Whitespace
    THEN TrimEnd(SubSeq(s, 1, Len(s) - 1)) ELSE s

Trim(s) == TrimEnd(TrimStart(s))

Untitled == <<"u", "n", "t", "i", "t", "l", "e", "d">>

\* the filename is not cut to 100 characters
sanitizeFilenameNoLimit(name) ==
    LET t == Trim(StripEdgeDashes(CollapseDashes(ReplaceSpecial(name))))
    IN  IF t = << >> THEN Untitled ELSE t

sanitizeFilename(name) ==
    LET t == Trim(StripEdgeDashes(CollapseDashes(ReplaceSpecial(name))))
        s == SubSeq(t, 1, Min(Len(t), MaxFilenameLen))
    IN  IF s = << >> THEN Untitled ELSE s

\* path.join(category, sanitizeFilename(title) + '.md')
RelativePath(category, title) ==
    <<category, "/">> \o sanitizeFilename(title) \o <<".md">>

AllPaths == {RelativePath(c, t) : c \in Categories, t \in Titles}

-----------------------------------------------------------------------------
(* Documents, file contents, index entries *)

NoFile == [absent |-> TRUE]

\* client.getDocumentById / getDocumentByUrl: the current page of remote id r
RemoteDocument(r) ==
    [id |-> r, title |-> remote[r].title, version |-> remote[r].version,
     labels |-> remote[r].labels]

\* converter.convert + buildMarkdownFile: the header block and the body of
\* the file are a function of the document and of the conversion time
buildMarkdownFile(document, t) ==
    [title |-> document.title, confluence_id |-> document.id,
     version |-> document.version, synced_at |-> t,
     labels |-> document.labels]

\* DocsManager.computeChecksum: a digest of the content
computeChecksum(content) == <<"sha256", content>>

\* DocsManager.loadMetadataIndex / listDocuments()
listDocuments == index

\* DocsManager.getDocumentByConfluenceId: position of the first match, 0 if none
getDocumentByConfluenceId(idx, confluenceId) ==
    LET Test(d) == d.confluenceId = confluenceId IN FindIndex(idx, Test)

\* a path without an entry gets the first entry of the index
getDocumentByPathOrFirst(idx, relativePath) ==
    LET Test(d) == d.relativePath = relativePath
    IN  IF FindIndex(idx, Test) > 0 THEN FindIndex(idx, Test)
        ELSE IF Len(idx) > 0 THEN 1 ELSE 0

\* DocsManager.getDocumentByPath: position of the first match, 0 if none
getDocumentByPath(idx, relativePath) ==
    LET Test(d) == d.relativePath = relativePath IN FindIndex(idx, Test)

\* fs.existsSync / the file is on disk
FileExists(fls, relativePath) == fls[relativePath] # NoFile

-----------------------------------------------------------------------------
(* DocsManager: the mutations *)

\* the entry is pushed without looking for an existing one
updateMetadataIndexAlwaysPush(idx, metadata) == Append(idx, metadata)

\* a new entry is put at the front of the index (unshift)
updateMetadataIndexUnshift(idx, metadata) ==
    LET Test(d) == d.id = metadata.id \/ d.confluenceId = metadata.confluenceId
        existingIndex == FindIndex(idx, Test)
    IN  IF existingIndex >= 1
        THEN [idx EXCEPT ![existingIndex] = metadata]
        ELSE <<metadata>> \o idx

updateMetadataIndex(idx, metadata) ==
    LET Test(d) == d.id = metadata.id \/ d.confluenceId = metadata.confluenceId
        existingIndex == FindIndex(idx, Test)
    IN  IF existingIndex >= 1
        THEN [idx EXCEPT ![existingIndex] = metadata]
        ELSE Append(idx, metadata)

\* the result is the new index, the new files and the metadata returned
saveDocument(idx, fls, document, connectionId, category, uuid, t) ==
    LET markdownContent == buildMarkdownFile(document, t)
        relativePath == RelativePath(category, document.title)
        metadata == [id |-> uuid,
                     confluenceId |-> document.id,
                     connectionId |-> connectionId,
                     relativePath |-> relativePath,
                     title |-> document.title,
                     version |-> document.version,
                     syncedAt |-> t,
                     checksum |-> computeChecksum(markdownContent),
                     category |-> category,
                     labels |-> document.labels]
    IN  [files |-> [fls EXCEPT ![relativePath] = markdownContent],
         index |-> updateMetadataIndex(idx, metadata),
         metadata |-> metadata]

\* the update derives the path from the new title, as a save does
updateDocumentRename(idx, fls, document, existingMetadata, t) ==
    LET markdownContent == buildMarkdownFile(document, t)
        relativePath == RelativePath(existingMetadata.category, document.title)
        updatedMetadata == [existingMetadata EXCEPT
                               !.relativePath = relativePath,
                               !.title = document.title,
                               !.version = document.version,
                               !.syncedAt = t,
                               !.checksum = computeChecksum(markdownContent),
                               !.labels = document.labels]
    IN  [files |-> [fls EXCEPT ![relativePath] = markdownContent],
         index |-> updateMetadataIndex(idx, updatedMetadata),
         metadata |-> updatedMetadata]

\* the update leaves the recorded checksum as it was
updateDocumentKeepChecksum(idx, fls, document, existingMetadata, t) ==
    LET markdownContent == buildMarkdownFile(document, t)
        updatedMetadata == [existingMetadata EXCEPT
                               !.title = document.title,
                               !.version = document.version,
                               !.syncedAt = t,
                               !.labels = document.labels]
    IN  [files |-> [fls EXCEPT ![existingMetadata.relativePath] = markdownContent],
         index |-> updateMetadataIndex(idx, updatedMetadata),
         metadata |-> updatedMetadata]

updateDocument(idx, fls, document, existingMetadata, t) ==
    LET markdownContent == buildMarkdownFile(document, t)
        updatedMetadata == [existingMetadata EXCEPT
                               !.title = document.title,
                               !.version = document.version,
                               !.syncedAt = t,
                               !.checksum = computeChecksum(markdownContent),
                               !.labels = document.labels]
    IN  [files |-> [fls EXCEPT ![existingMetadata.relativePath] = markdownContent],
         index |-> updateMetadataIndex(idx, updatedMetadata),
         metadata |-> updatedMetadata]

\* the error of fs.delete on an absent file is not caught: the entry stays
deleteDocumentNoCatch(idx, fls, id) ==
    LET Test(d) == d.id = id
        docIndex == FindIndex(idx, Test)
    IN  IF docIndex = 0 \/ ~FileExists(fls, idx[docIndex].relativePath)
        THEN [files |-> fls, index |-> idx]
        ELSE [files |-> [fls EXCEPT ![idx[docIndex].relativePath] = NoFile],
              index |-> Splice(idx, docIndex)]

deleteDocument(idx, fls, id) ==
    LET Test(d) == d.id = id
        docIndex == FindIndex(idx, Test)
    IN  IF docIndex = 0
        THEN [files |-> fls, index |-> idx]
        ELSE \* fs.delete throws when the file is absent; the catch swallows it
             [files |-> [fls EXCEPT ![idx[docIndex].relativePath] = NoFile],
              index |-> Splice(idx, docIndex)]

-----------------------------------------------------------------------------
(* Initial state *)


\* The callers that can have a store mutation in flight: two commands the
\* user started, and syncAllDocuments for each document of its list.
CommandTasks == {<<"command", 1>>, <<"command", 2>>}
BulkTasks == {<<"bulk", i>> : i \in 1..MaxIds}
Owners == CommandTasks \cup BulkTasks

\* the caller has no mutation in flight
NoTask == [pc |-> "none"]

\* no string is being converted
NoText == [stage |-> "none"]

Idle == [pc |-> "idle", documents |-> << >>, i |-> 0, synced |-> 0,
         failed |-> 0, skipped |-> 0, cancel |-> FALSE, log |-> << >>]

\* cmd: the command or step that ran; out: its outcome; call: the store
\* mutation it made, if any; cid: the remote id of the document it handled;
\* id: the local id of the metadata it was given (or that it created)
Did(cmd, out, call, cid, id) ==
    [cmd |-> cmd, out |-> out, call |-> call, cid |-> cid, id |-> id]

\* the variables of the store and of the commands
storeVars == <<index, files, remote, connConfigured, authenticated, nextId,
               bulk, last, tasks>>

\* no index file yet, no Markdown file, two pages on the wiki
InitStore ==
    /\ index = << >>
    /\ files = [p \in AllPaths |-> NoFile]
    /\ remote = [r \in RemoteIds |->
                    [title |-> IF r = "r1" THEN TitleSlash ELSE TitleColon,
                     version |-> 1, labels |-> << >>]]
    /\ connConfigured = TRUE
    /\ authenticated = TRUE
    /\ nextId = 1
    /\ bulk = Idle
    /\ last = Did("init", "none", "none", "none", 0)
    /\ tasks = [k \in Owners |-> NoTask]

Init ==
    /\ InitStore
    /\ text = NoText

-----------------------------------------------------------------------------
(* The environment: the remote wiki, the user's settings and files, time *)

\* a page is edited on the wiki: its version number goes up, its title and
\* its labels change
RemoteEdit(r) ==
    /\ remote[r].version < MaxVersion
    /\ remote' = [remote EXCEPT ![r] = [title |-> Retitle(remote[r].title),
                                        version |-> remote[r].version + 1,
                                        labels |-> Relabel(remote[r].labels)]]
    /\ last' = Did("env", "none", "none", "none", 0)
    /\ UNCHANGED <<index, files, connConfigured, authenticated, nextId, bulk,
                   tasks, text>>

\* the user deletes a Markdown file in the explorer
ExternalDeleteFile(p) ==
    /\ FileExists(files, p)
    /\ files' = [files EXCEPT ![p] = NoFile]
    /\ last' = Did("env", "none", "none", "none", 0)
    /\ UNCHANGED <<index, remote, connConfigured, authenticated, nextId, bulk,
                   tasks, text>>

\* the connection is added to or removed from the settings
ToggleConnection ==
    /\ connConfigured' = ~connConfigured
    /\ last' = Did("env", "none", "none", "none", 0)
    /\ UNCHANGED <<index, files, remote, authenticated, nextId, bulk,
                   tasks, text>>

\* AuthProvider.logout: the credentials are removed
Logout ==
    /\ authenticated
    /\ authenticated' = FALSE
    /\ last' = Did("env", "none", "none", "none", 0)
    /\ UNCHANGED <<index, files, remote, connConfigured, nextId, bulk,
                   tasks, text>>

-----------------------------------------------------------------------------
(* DocsManager.deleteDocument called by the host *)

DeleteDocument(id) ==
    LET r == deleteDocument(index, files, id)
    IN  /\ index' = r.index
        /\ files' = r.files
        /\ last' = Did("deleteDocument",
                       IF r.index = index THEN "absent"
                       ELSE IF r.files = files THEN "deletedFileMissing"
                       ELSE "deleted",
                       "delete", "none", id)
        /\ UNCHANGED <<remote, connConfigured, authenticated, nextId, bulk,
                       tasks, text>>

-----------------------------------------------------------------------------
(* commands/fetchByUrl.ts: fetchByUrl *)

\* r: the page the URL names; authOk: the user completes the credential
\* prompts; fetchOk: the request succeeds; answer: the reply to "Update it?";
\* t: the time of the conversion
FetchByUrl(r, category, authOk, fetchOk, answer, t) ==
    /\ connConfigured
    /\ IF ~authenticated /\ ~authOk
       THEN \* AuthenticationError('Authentication cancelled'), caught
            /\ last' = Did("fetchByUrl", "error", "none", "none", 0)
            /\ UNCHANGED <<index, files, authenticated, nextId>>
       ELSE /\ authenticated' = TRUE
            /\ IF ~fetchOk
               THEN \* getDocumentByUrl throws, caught
                    /\ last' = Did("fetchByUrl", "error", "none", "none", 0)
                    /\ UNCHANGED <<index, files, nextId>>
               ELSE LET document == RemoteDocument(r)
                        e == getDocumentByConfluenceId(index, document.id)
                        fileExists == e > 0 /\ FileExists(files, index[e].relativePath)
                    IN  IF e > 0 /\ fileExists
                        THEN IF answer # "Update"
                             THEN /\ last' = Did("fetchByUrl", "cancelled", "none", "none", 0)
                                  /\ UNCHANGED <<index, files, nextId>>
                             ELSE LET u == updateDocument(index, files, document,
                                                          index[e], t)
                                  IN  /\ index' = u.index
                                      /\ files' = u.files
                                      /\ last' = Did("fetchByUrl", "updated", "update",
                                                     document.id, index[e].id)
                                      /\ UNCHANGED nextId
                        ELSE /\ nextId <= MaxIds
                             /\ LET v == saveDocument(index, files, document,
                                                      ConnectionId, category,
                                                      nextId, t)
                                IN  /\ index' = v.index
                                    /\ files' = v.files
                                    /\ last' = Did("fetchByUrl",
                                                   IF e > 0 THEN "resaved" ELSE "saved",
                                                   "save", document.id, v.metadata.id)
                                    /\ nextId' = nextId + 1
    /\ UNCHANGED <<remote, connConfigured, bulk,
                   tasks, text>>

-----------------------------------------------------------------------------
(* commands/searchDocuments.ts: fetchAndSaveDocument *)

\* the search picker was opened with the connection configured and
\* authenticated; r is the search hit the user accepted
FetchAndSaveDocument(r, category, fetchOk, answer, t) ==
    /\ connConfigured
    /\ authenticated
    /\ IF ~fetchOk
       THEN \* getDocumentById throws, caught
            /\ last' = Did("fetchAndSaveDocument", "error", "none", "none", 0)
            /\ UNCHANGED <<index, files, nextId>>
       ELSE LET document == RemoteDocument(r)
                e == getDocumentByConfluenceId(index, document.id)
            IN  IF e > 0
                THEN IF answer # "Update"
                     THEN /\ last' = Did("fetchAndSaveDocument", "cancelled", "none", "none", 0)
                          /\ UNCHANGED <<index, files, nextId>>
                     ELSE LET u == updateDocument(index, files, document,
                                                  index[e], t)
                          IN  /\ index' = u.index
                              /\ files' = u.files
                              /\ last' = Did("fetchAndSaveDocument", "updated",
                                             "update", document.id, index[e].id)
                              /\ UNCHANGED nextId
                ELSE /\ nextId <= MaxIds
                     /\ LET v == saveDocument(index, files, document,
                                              ConnectionId, category, nextId, t)
                        IN  /\ index' = v.index
                            /\ files' = v.files
                            /\ last' = Did("fetchAndSaveDocument", "saved", "save",
                                           document.id, v.metadata.id)
                            /\ nextId' = nextId + 1
    /\ UNCHANGED <<remote, connConfigured, authenticated, bulk,
                   tasks, text>>

-----------------------------------------------------------------------------
(* syncSingleDocument *)

\* The result of syncing the document of `metadata`: out is the value
\* returned ('synced', 'skipped') or "throw"; index, files and auth are the
\* store and the credential state it leaves; call tells whether the page was
\* fetched and whether updateDocument ran.
SyncResult(out, idx, fls, auth, call) ==
    [out |-> out, index |-> idx, files |-> fls, auth |-> auth, call |-> call]

\* `document.version <= metadata.version`
UpToDate(document, metadata) == document.version <= metadata.version

syncSingleDocument(metadata, silent, authOk, fetchOk, t) ==
    IF ~(connConfigured /\ metadata.connectionId = ConnectionId)
    THEN SyncResult("throw", index, files, authenticated, "none")
    ELSE IF ~authenticated /\ (silent \/ ~authOk)
    THEN SyncResult("throw", index, files, authenticated, "none")
    ELSE IF ~FileExists(files, metadata.relativePath)
    THEN SyncResult("skipped", index, files, TRUE, "none")
    ELSE IF ~fetchOk
    THEN SyncResult("throw", index, files, TRUE, "none")
    ELSE LET document == RemoteDocument(metadata.confluenceId)
         IN  IF UpToDate(document, metadata)
             THEN SyncResult("skipped", index, files, TRUE, "fetch")
             ELSE LET u == updateDocument(index, files, document, metadata, t)
                  IN  SyncResult("synced", u.index, u.files, TRUE, "update")

\* syncDocument: the active editor shows the file at relative path p
SyncDocument(p, authOk, fetchOk, t) ==
    LET e == getDocumentByPath(index, p)
    IN  /\ IF e = 0
           THEN \* 'Could not find metadata for this document'
                /\ last' = Did("syncDocument", "nottracked", "none", "none", 0)
                /\ UNCHANGED <<index, files, authenticated>>
           ELSE LET s == syncSingleDocument(index[e], FALSE, authOk, fetchOk, t)
                IN  /\ index' = s.index
                    /\ files' = s.files
                    /\ authenticated' = s.auth
                    /\ last' = Did("syncDocument", s.out, s.call, index[e].confluenceId,
                                   index[e].id)
        /\ UNCHANGED <<remote, connConfigured, nextId, bulk,
                       tasks, text>>

-----------------------------------------------------------------------------
(* syncAllDocuments *)

\* listDocuments() is taken, then the user is asked to confirm
SyncAllStart ==
    /\ bulk.pc = "idle"
    /\ IF Len(listDocuments) = 0
       THEN \* 'No documents to sync.'
            bulk' = Idle
       ELSE bulk' = [Idle EXCEPT !.pc = "confirm", !.documents = listDocuments]
    /\ last' = Did("syncAllDocuments", "start", "none", "none", 0)
    /\ UNCHANGED <<index, files, remote, connConfigured, authenticated, nextId,
                   tasks, text>>

SyncAllConfirm(confirm) ==
    /\ bulk.pc = "confirm"
    /\ bulk' = IF confirm = "Sync All" THEN [bulk EXCEPT !.pc = "loop"] ELSE Idle
    /\ last' = Did("syncAllDocuments", "confirm", "none", "none", 0)
    /\ UNCHANGED <<index, files, remote, connConfigured, authenticated, nextId,
                   tasks, text>>

\* the user presses Cancel on the progress notification
SyncAllCancel ==
    /\ bulk.pc \in {"loop", "sync"}
    /\ ~bulk.cancel
    /\ bulk' = [bulk EXCEPT !.cancel = TRUE]
    /\ last' = Did("env", "none", "none", "none", 0)
    /\ UNCHANGED <<index, files, remote, connConfigured, authenticated, nextId,
                   tasks, text>>

\* a thrown error is counted as failed and as skipped
CountThrowTwice(b, out) ==
    IF out = "synced" THEN [b EXCEPT !.synced = @ + 1]
    ELSE IF out = "skipped" THEN [b EXCEPT !.skipped = @ + 1]
    ELSE IF out = "throw" THEN [b EXCEPT !.failed = @ + 1, !.skipped = @ + 1]
    ELSE b

\* the counters after one result of syncSingleDocument
Count(b, out) ==
    IF out = "synced" THEN [b EXCEPT !.synced = @ + 1]
    ELSE IF out = "skipped" THEN [b EXCEPT !.skipped = @ + 1]
    ELSE IF out = "throw" THEN [b EXCEPT !.failed = @ + 1]
    ELSE b

\* no try/catch around syncSingleDocument: a thrown error ends the command
SyncAllStepAbortOnThrow(fetchOk, t) ==
    /\ bulk.pc = "loop"
    /\ IF bulk.i >= Len(bulk.documents) \/ bulk.cancel
       THEN /\ bulk' = Idle
            /\ last' = Did("syncAllDocuments", "summary", "none", "none", 0)
            /\ UNCHANGED <<index, files, authenticated>>
       ELSE LET doc == bulk.documents[bulk.i + 1]
                s == syncSingleDocument(doc, TRUE, FALSE, fetchOk, t)
            IN  /\ index' = s.index
                /\ files' = s.files
                /\ authenticated' = s.auth
                /\ bulk' = IF s.out = "throw" THEN Idle
                           ELSE [Count(bulk, s.out) EXCEPT
                                    !.i = @ + 1,
                                    !.log = Append(@, [k |-> bulk.i + 1,
                                                       out |-> s.out])]
                /\ last' = Did("syncAllDocuments", s.out, s.call, doc.confluenceId,
                               doc.id)
    /\ UNCHANGED <<remote, connConfigured, nextId,
                   tasks, text>>

\* one turn of the for loop: the loop test, the cancellation test, one document
SyncAllStep(fetchOk, t) ==
    /\ bulk.pc = "loop"
    /\ IF bulk.i >= Len(bulk.documents) \/ bulk.cancel
       THEN \* the loop ends, the summary is shown, the command returns
            /\ bulk' = Idle
            /\ last' = Did("syncAllDocuments", "summary", "none", "none", 0)
            /\ UNCHANGED <<index, files, authenticated>>
       ELSE LET doc == bulk.documents[bulk.i + 1]
                s == syncSingleDocument(doc, TRUE, FALSE, fetchOk, t)
            IN  /\ index' = s.index
                /\ files' = s.files
                /\ authenticated' = s.auth
                /\ bulk' = [Count(bulk, s.out) EXCEPT
                               !.i = @ + 1,
                               !.log = Append(@, [k |-> bulk.i + 1, out |-> s.out])]
                /\ last' = Did("syncAllDocuments", s.out, s.call, doc.confluenceId,
                               doc.id)
    /\ UNCHANGED <<remote, connConfigured, nextId,
                   tasks, text>>

-----------------------------------------------------------------------------
(* The inputs of the commands *)

Answers == {"Update", "Cancel"}
Confirms == {"Sync All", "Cancel"}

\* the credential prompts appear only when no credentials are stored
AuthChoices == IF authenticated THEN {TRUE} ELSE BOOLEAN

\* The inputs of a command, with those it does not read in the current state
\* held at one value: the category is read only when the page is saved, the
\* answer only when the user is asked, the time only when a file is written.
AnyOf(S) == CHOOSE x \in S : TRUE
OnlyIf(reads, S) == IF reads THEN S ELSE {AnyOf(S)}

\* fetchByUrl asks "Update it?" when the page is tracked and its file exists
AsksUpdate(r, needsFile) ==
    LET e == getDocumentByConfluenceId(index, r)
    IN  e > 0 /\ (needsFile => FileExists(files, index[e].relativePath))

FetchInputs(r, needsFile, cats, times) ==
    {x \in [fetchOk : BOOLEAN, category : cats, answer : Answers, t : times] :
        LET asks == x.fetchOk /\ AsksUpdate(r, needsFile)
            saves == x.fetchOk /\ ~AsksUpdate(r, needsFile)
            writes == saves \/ (asks /\ x.answer = "Update")
        IN  /\ x.category \in OnlyIf(saves, cats)
            /\ x.answer \in OnlyIf(asks, Answers)
            /\ x.t \in OnlyIf(writes, times)}

SyncInputs(p, times) ==
    {x \in [fetchOk : BOOLEAN, t : times] :
        LET e == getDocumentByPath(index, p)
            fetches == e > 0 /\ FileExists(files, p)
            writes == /\ fetches
                      /\ x.fetchOk
                      /\ ~UpToDate(RemoteDocument(index[e].confluenceId), index[e])
        IN  /\ x.fetchOk \in OnlyIf(fetches, BOOLEAN)
            /\ x.t \in OnlyIf(writes, times)}

-----------------------------------------------------------------------------
(* DocsManager: the mutations, one await at a time *)

\* the order of writes chosen the other way round: the index first
StepAfterIndexFirst(kind, pc) ==
    IF kind = "delete"
    THEN CASE pc = "start" -> "load"
           [] pc = "load" -> "deleteFile"
           [] pc = "deleteFile" -> "write"
           [] OTHER -> "return"
    ELSE CASE pc = "start" -> "load"
           [] pc = "load" -> "write"
           [] pc = "write" -> "writeFile"
           [] OTHER -> "return"

\* The awaits of a mutation, in program order.  saveDocument and
\* updateDocument: fs.writeFile of the Markdown file, loadMetadataIndex,
\* saveMetadataIndex.  deleteDocument: loadMetadataIndex, fs.delete,
\* saveMetadataIndex.
StepAfter(kind, pc) ==
    IF kind = "delete"
    THEN CASE pc = "start" -> "load"
           [] pc = "load" -> "deleteFile"
           [] pc = "deleteFile" -> "write"
           [] OTHER -> "return"
    ELSE CASE pc = "start" -> "writeFile"
           [] pc = "writeFile" -> "load"
           [] pc = "load" -> "write"
           [] OTHER -> "return"

\* a mutation at its first await
NewTask(kind, metadata, content) ==
    [pc |-> StepAfter(kind, "start"), kind |-> kind, metadata |-> metadata,
     content |-> content, loaded |-> << >>, trail |-> << >>]

\* the task after the await it was at
Advance(task) ==
    LET pc == StepAfter(task.kind, task.pc)
    IN  IF pc = "return" THEN NoTask
        ELSE [task EXCEPT !.pc = pc, !.trail = Append(@, task.pc)]

\* deleteDocument: the position of the entry in the index it loaded
DocIndex(task) ==
    LET Test(d) == d.id = task.metadata.id IN FindIndex(task.loaded, Test)

\* saveMetadataIndex writes the index that was loaded, changed in memory,
\* over the one that was loaded again just before
WrittenIndexReloaded(task, idx) ==
    IF task.kind = "delete"
    THEN LET Test(d) == d.id = task.metadata.id
             docIndex == FindIndex(idx, Test)
         IN  IF docIndex = 0 THEN idx ELSE Splice(idx, docIndex)
    ELSE updateMetadataIndex(idx, task.metadata)

\* the index saveMetadataIndex writes: the one the mutation loaded, with its
\* change applied in memory; idx, the index now on disk, is not read
WrittenIndex(task, idx) ==
    IF task.kind = "delete"
    THEN Splice(task.loaded, DocIndex(task))
    ELSE updateMetadataIndex(task.loaded, task.metadata)

\* the await of caller k's mutation completes
TaskStep(k) ==
    LET task == tasks[k]
        path == task.metadata.relativePath
    IN  /\ task.pc \in {"writeFile", "load", "deleteFile", "write"}
        /\ files' = CASE task.pc = "writeFile" ->
                            [files EXCEPT ![path] = task.content]
                       [] task.pc = "deleteFile" ->
                            \* an absent file makes fs.delete throw: caught
                            [files EXCEPT ![task.loaded[DocIndex(task)].relativePath]
                                              = NoFile]
                       [] OTHER -> files
        /\ index' = IF task.pc = "write" THEN WrittenIndex(task, index) ELSE index
        /\ tasks' = [tasks EXCEPT ![k] =
                        IF task.pc = "load"
                        THEN LET loaded == [task EXCEPT !.loaded = index]
                             IN  IF task.kind = "delete" /\ DocIndex(loaded) = 0
                                 THEN NoTask    \* docIndex === -1: return
                                 ELSE Advance(loaded)
                        ELSE Advance(task)]
        /\ last' = Did(k[1], task.pc, task.kind, "none", 0)

\* caller k can start a mutation: it has none in flight; the second command
\* is one started while the first is still running
CanStart(k) ==
    /\ tasks[k] = NoTask
    /\ k = <<"command", 2>> => tasks[<<"command", 1>>] # NoTask

\* a command has fetched page r, found it untracked (or its file gone) and
\* calls saveDocument
StartSave(k, r, category, t) ==
    /\ CanStart(k)
    /\ nextId <= MaxIds
    /\ ~AsksUpdate(r, TRUE)
    /\ LET document == RemoteDocument(r)
           s == saveDocument(index, files, document, ConnectionId, category,
                             nextId, t)
       IN  /\ tasks' = [tasks EXCEPT ![k] =
                           NewTask("save", s.metadata,
                                   buildMarkdownFile(document, t))]
           /\ last' = Did(k[1], "start", "save", "none", 0)
    /\ nextId' = nextId + 1
    /\ UNCHANGED <<index, files, remote, connConfigured, authenticated, bulk,
                   text>>

\* a command has fetched page r, found its entry and its file, the user
\* answered 'Update': it calls updateDocument with the entry it read
StartUpdate(k, r, t) ==
    /\ CanStart(k)
    /\ AsksUpdate(r, TRUE)
    /\ LET document == RemoteDocument(r)
           existing == index[getDocumentByConfluenceId(index, r)]
           u == updateDocument(index, files, document, existing, t)
       IN  /\ tasks' = [tasks EXCEPT ![k] =
                           NewTask("update", u.metadata,
                                   buildMarkdownFile(document, t))]
           /\ last' = Did(k[1], "start", "update", "none", 0)
    /\ UNCHANGED <<index, files, remote, connConfigured, authenticated, nextId,
                   bulk, text>>

\* the host calls deleteDocument(id)
StartDelete(k, id) ==
    /\ CanStart(k)
    /\ id < nextId
    /\ tasks' = [tasks EXCEPT ![k] =
                    NewTask("delete", [id |-> id, confluenceId |-> "none"], NoFile)]
    /\ last' = Did(k[1], "start", "delete", "none", 0)
    /\ UNCHANGED <<index, files, remote, connConfigured, authenticated, nextId,
                   bulk, text>>

\* an await of a command's mutation completes
CommandStep(k) ==
    /\ TaskStep(k)
    /\ UNCHANGED <<remote, connConfigured, authenticated, nextId, bulk, text>>

\* the extension host dies: every mutation in flight stops where it is
Crash ==
    /\ \E k \in Owners : tasks[k] # NoTask
    /\ tasks' = [k \in Owners |-> NoTask]
    /\ bulk' = Idle
    /\ last' = Did("crash", "none", "none", "none", 0)
    /\ UNCHANGED <<index, files, remote, connConfigured, authenticated, nextId,
                   text>>

-----------------------------------------------------------------------------
(* syncAllDocuments, one await at a time *)

\* the result of the document at position k[2] is counted and the loop goes
\* to its next turn
Counted(k, out) ==
    [Count(bulk, out) EXCEPT !.pc = "loop", !.i = @ + 1,
                             !.log = Append(@, [k |-> k[2], out |-> out])]

\* the remote id of the document the loop stopped before, if it did not
\* reach the end of the list
Stopped ==
    IF bulk.i < Len(bulk.documents)
    THEN bulk.documents[bulk.i + 1].confluenceId
    ELSE "none"

\* the loop does not look at the cancellation token
BulkTurnIgnoreCancel ==
    /\ bulk.pc = "loop"
    /\ IF bulk.i >= Len(bulk.documents)
       THEN /\ bulk' = Idle
            /\ last' = Did("syncAllDocuments", "summary", "none", Stopped, 0)
            /\ UNCHANGED <<tasks, authenticated>>
       ELSE LET k == <<"bulk", bulk.i + 1>>
                doc == bulk.documents[bulk.i + 1]
                s == syncSingleDocument(doc, TRUE, FALSE, TRUE, AnyOf(Times))
            IN  IF s.call = "none"
                THEN /\ bulk' = Counted(k, s.out)
                     /\ last' = Did("syncAllDocuments", s.out, "none",
                                    doc.confluenceId, doc.id)
                     /\ UNCHANGED <<tasks, authenticated>>
                ELSE /\ tasks' = [tasks EXCEPT ![k] =
                                     [pc |-> "fetch", kind |-> "update",
                                      metadata |-> doc]]
                     /\ authenticated' = s.auth
                     /\ bulk' = [bulk EXCEPT !.pc = "sync"]
                     /\ last' = Did("syncAllDocuments", "fetching", "none",
                                    doc.confluenceId, doc.id)
    /\ UNCHANGED <<index, files, remote, connConfigured, nextId, text>>

\* syncSingleDocument is called without await (as in a forEach): the loop
\* goes on to the next document while this one is being fetched
BulkTurnNoAwait ==
    /\ bulk.pc = "loop"
    /\ IF bulk.i >= Len(bulk.documents) \/ bulk.cancel
       THEN /\ bulk' = Idle
            /\ last' = Did("syncAllDocuments", "summary", "none", Stopped, 0)
            /\ UNCHANGED <<tasks, authenticated>>
       ELSE LET k == <<"bulk", bulk.i + 1>>
                doc == bulk.documents[bulk.i + 1]
                s == syncSingleDocument(doc, TRUE, FALSE, TRUE, AnyOf(Times))
            IN  IF s.call = "none"
                THEN /\ bulk' = Counted(k, s.out)
                     /\ last' = Did("syncAllDocuments", s.out, "none",
                                    doc.confluenceId, doc.id)
                     /\ UNCHANGED <<tasks, authenticated>>
                ELSE /\ tasks' = [tasks EXCEPT ![k] =
                                     [pc |-> "fetch", kind |-> "update",
                                      metadata |-> doc]]
                     /\ authenticated' = s.auth
                     /\ bulk' = [bulk EXCEPT !.i = @ + 1]
                     /\ last' = Did("syncAllDocuments", "fetching", "none",
                                    doc.confluenceId, doc.id)
    /\ UNCHANGED <<index, files, remote, connConfigured, nextId, text>>

\* One turn of the for loop up to its first await: the loop test, the
\* cancellation test, then syncSingleDocument's checks of the connection,
\* the credentials and the file.  Either the result is known (an error
\* thrown, 'skipped' for a missing file) or the fetch of the page begins.
BulkTurn ==
    /\ bulk.pc = "loop"
    /\ IF bulk.i >= Len(bulk.documents) \/ bulk.cancel
       THEN /\ bulk' = Idle
            /\ last' = Did("syncAllDocuments", "summary", "none", Stopped, 0)
            /\ UNCHANGED <<tasks, authenticated>>
       ELSE LET k == <<"bulk", bulk.i + 1>>
                doc == bulk.documents[bulk.i + 1]
                s == syncSingleDocument(doc, TRUE, FALSE, TRUE, AnyOf(Times))
            IN  IF s.call = "none"
                THEN /\ bulk' = Counted(k, s.out)
                     /\ last' = Did("syncAllDocuments", s.out, "none",
                                    doc.confluenceId, doc.id)
                     /\ UNCHANGED <<tasks, authenticated>>
                ELSE /\ tasks' = [tasks EXCEPT ![k] =
                                     [pc |-> "fetch", kind |-> "update",
                                      metadata |-> doc]]
                     /\ authenticated' = s.auth
                     /\ bulk' = [bulk EXCEPT !.pc = "sync"]
                     /\ last' = Did("syncAllDocuments", "fetching", "none",
                                    doc.confluenceId, doc.id)
    /\ UNCHANGED <<index, files, remote, connConfigured, nextId, text>>

\* a failed fetch is tried again instead of being counted as failed
BulkFetchedRetry(k, fetchOk, t) ==
    LET doc == tasks[k].metadata
        document == RemoteDocument(doc.confluenceId)
    IN  /\ tasks[k].pc = "fetch"
        /\ IF ~fetchOk
           THEN /\ UNCHANGED <<tasks, bulk>>
                /\ last' = Did("syncAllDocuments", "retry", "none",
                               doc.confluenceId, doc.id)
           ELSE IF UpToDate(document, doc)
           THEN /\ tasks' = [tasks EXCEPT ![k] = NoTask]
                /\ bulk' = Counted(k, "skipped")
                /\ last' = Did("syncAllDocuments", "skipped", "fetch",
                               doc.confluenceId, doc.id)
           ELSE LET u == updateDocument(index, files, document, doc, t)
                IN  /\ tasks' = [tasks EXCEPT ![k] =
                                    NewTask("update", u.metadata,
                                            buildMarkdownFile(document, t))]
                    /\ bulk' = bulk
                    /\ last' = Did("syncAllDocuments", "fetched", "fetch",
                                   doc.confluenceId, doc.id)
        /\ UNCHANGED <<index, files, remote, connConfigured, authenticated,
                       nextId, text>>

\* client.getDocumentById returns or throws.  A page not newer than the
\* metadata gives 'skipped'; otherwise updateDocument is called.
BulkFetched(k, fetchOk, t) ==
    LET doc == tasks[k].metadata
        document == RemoteDocument(doc.confluenceId)
    IN  /\ tasks[k].pc = "fetch"
        /\ IF ~fetchOk
           THEN /\ tasks' = [tasks EXCEPT ![k] = NoTask]
                /\ bulk' = Counted(k, "throw")
                /\ last' = Did("syncAllDocuments", "throw", "fetch",
                               doc.confluenceId, doc.id)
           ELSE IF UpToDate(document, doc)
           THEN /\ tasks' = [tasks EXCEPT ![k] = NoTask]
                /\ bulk' = Counted(k, "skipped")
                /\ last' = Did("syncAllDocuments", "skipped", "fetch",
                               doc.confluenceId, doc.id)
           ELSE LET u == updateDocument(index, files, document, doc, t)
                IN  /\ tasks' = [tasks EXCEPT ![k] =
                                    NewTask("update", u.metadata,
                                            buildMarkdownFile(document, t))]
                    /\ bulk' = bulk
                    /\ last' = Did("syncAllDocuments", "fetched", "fetch",
                                   doc.confluenceId, doc.id)
        /\ UNCHANGED <<index, files, remote, connConfigured, authenticated,
                       nextId, text>>

\* an await of updateDocument completes; after the last one
\* syncSingleDocument returns 'synced'
BulkStep(k) ==
    /\ TaskStep(k)
    /\ bulk' = IF tasks'[k] = NoTask THEN Counted(k, "synced") ELSE bulk
    /\ UNCHANGED <<remote, connConfigured, authenticated, nextId, text>>

-----------------------------------------------------------------------------
(* The specifications *)

\* The store and the commands that save, update and delete, with the
\* connection configured and authenticated throughout.
Next ==
    \/ \E r \in RemoteIds : RemoteEdit(r)
    \/ \E p \in AllPaths : ExternalDeleteFile(p)
    \/ \E id \in 1..MaxIds : DeleteDocument(id)
    \/ \E r \in RemoteIds, authOk \in AuthChoices :
          \E x \in FetchInputs(r, TRUE, Categories, Times) :
              FetchByUrl(r, x.category, authOk, x.fetchOk, x.answer, x.t)
    \/ \E r \in RemoteIds :
          \E x \in FetchInputs(r, FALSE, Categories, Times) :
              FetchAndSaveDocument(r, x.category, x.fetchOk, x.answer, x.t)
    \/ \E p \in AllPaths, authOk \in AuthChoices :
          \E x \in SyncInputs(p, Times) :
              SyncDocument(p, authOk, x.fetchOk, x.t)

Spec == Init /\ [][Next]_vars

\* Bulk sync running next to the other commands, with the failures a sync
\* can meet: the connection removed, the credentials gone, a failing fetch.
SyncCategories == {"guides"}
SyncTimes == {0}

NextSync ==
    \/ \E r \in RemoteIds : RemoteEdit(r)
    \/ ToggleConnection
    \/ Logout
    \/ \E r \in RemoteIds, authOk \in AuthChoices :
          \E x \in FetchInputs(r, TRUE, SyncCategories, SyncTimes) :
              FetchByUrl(r, x.category, authOk, x.fetchOk, x.answer, x.t)
    \/ \E p \in AllPaths, authOk \in AuthChoices :
          \E x \in SyncInputs(p, SyncTimes) :
              SyncDocument(p, authOk, x.fetchOk, x.t)
    \/ SyncAllStart
    \/ \E c \in Confirms : SyncAllConfirm(c)
    \/ SyncAllCancel
    \/ \E fetchOk \in BOOLEAN, t \in SyncTimes : SyncAllStep(fetchOk, t)

SpecSync == Init /\ [][NextSync]_vars

\* Bulk sync over documents whose Markdown file the user may have deleted,
\* with the connection and the credentials coming and going.
NextMissingFile ==
    \/ \E p \in AllPaths : ExternalDeleteFile(p)
    \/ ToggleConnection
    \/ Logout
    \/ \E r \in RemoteIds, authOk \in AuthChoices :
          \E x \in FetchInputs(r, TRUE, SyncCategories, SyncTimes) :
              FetchByUrl(r, x.category, authOk, x.fetchOk, x.answer, x.t)
    \/ SyncAllStart
    \/ \E c \in Confirms : SyncAllConfirm(c)
    \/ \E fetchOk \in BOOLEAN, t \in SyncTimes : SyncAllStep(fetchOk, t)

SpecMissingFile == Init /\ [][NextMissingFile]_vars

\* syncDocument on every path under .docs, tracked or not, next to the
\* commands that add and remove entries.
NextNotTracked ==
    \/ \E r \in RemoteIds : RemoteEdit(r)
    \/ \E id \in 1..MaxIds : DeleteDocument(id)
    \/ \E r \in RemoteIds, authOk \in AuthChoices :
          \E x \in FetchInputs(r, TRUE, SyncCategories, SyncTimes) :
              FetchByUrl(r, x.category, authOk, x.fetchOk, x.answer, x.t)
    \/ \E p \in AllPaths, authOk \in AuthChoices :
          \E x \in SyncInputs(p, SyncTimes) :
              SyncDocument(p, authOk, x.fetchOk, x.t)

SpecNotTracked == Init /\ [][NextNotTracked]_vars

\* The commands that save, update and delete, with no edit of the files
\* from outside.
NextCommands ==
    \/ \E r \in RemoteIds : RemoteEdit(r)
    \/ \E id \in 1..MaxIds : DeleteDocument(id)
    \/ \E r \in RemoteIds, authOk \in AuthChoices :
          \E x \in FetchInputs(r, TRUE, Categories, SyncTimes) :
              FetchByUrl(r, x.category, authOk, x.fetchOk, x.answer, x.t)
    \/ \E r \in RemoteIds :
          \E x \in FetchInputs(r, FALSE, Categories, SyncTimes) :
              FetchAndSaveDocument(r, x.category, x.fetchOk, x.answer, x.t)
    \/ \E p \in AllPaths, authOk \in AuthChoices :
          \E x \in SyncInputs(p, SyncTimes) :
              SyncDocument(p, authOk, x.fetchOk, x.t)

SpecCommands == Init /\ [][NextCommands]_vars

\* Two commands whose store mutations run at the same time, one await at a
\* time.  One of the pages is edited on the wiki meanwhile.
EditedPage == "r1"

NextStore ==
    \/ RemoteEdit(EditedPage)
    \/ \E k \in CommandTasks, r \in RemoteIds, c \in SyncCategories, t \in SyncTimes :
          StartSave(k, r, c, t)
    \/ \E k \in CommandTasks, r \in RemoteIds, t \in SyncTimes : StartUpdate(k, r, t)
    \/ \E k \in CommandTasks, id \in 1..MaxIds : StartDelete(k, id)
    \/ \E k \in CommandTasks : CommandStep(k)

SpecStore == Init /\ [][NextStore]_vars

\* The same, with the extension host dying at any point.
NextCrash ==
    \/ NextStore
    \/ Crash

SpecCrash == Init /\ [][NextCrash]_vars

\* Bulk sync one await at a time, while pages are saved, updated on request
\* and edited on the wiki, and the user may press Cancel.
NextBulk ==
    \/ \E r \in RemoteIds : RemoteEdit(r)
    \/ \E r \in RemoteIds, authOk \in AuthChoices :
          \E x \in FetchInputs(r, TRUE, SyncCategories, SyncTimes) :
              FetchByUrl(r, x.category, authOk, x.fetchOk, x.answer, x.t)
    \/ SyncAllStart
    \/ \E c \in Confirms : SyncAllConfirm(c)
    \/ SyncAllCancel
    \/ BulkTurn
    \/ \E k \in BulkTasks, fetchOk \in BOOLEAN, t \in SyncTimes :
          BulkFetched(k, fetchOk, t)
    \/ \E k \in BulkTasks : BulkStep(k)

SpecBulk == Init /\ [][NextBulk]_vars

\* Bulk sync, one await at a time, while documents are deleted from the
\* store.
NextStale ==
    \/ \E r \in RemoteIds : RemoteEdit(r)
    \/ \E id \in 1..MaxIds : DeleteDocument(id)
    \/ \E r \in RemoteIds, authOk \in AuthChoices :
          \E x \in FetchInputs(r, TRUE, SyncCategories, SyncTimes) :
              FetchByUrl(r, x.category, authOk, x.fetchOk, x.answer, x.t)
    \/ SyncAllStart
    \/ \E c \in Confirms : SyncAllConfirm(c)
    \/ SyncAllCancel
    \/ BulkTurn
    \/ \E k \in BulkTasks, fetchOk \in BOOLEAN, t \in SyncTimes :
          BulkFetched(k, fetchOk, t)
    \/ \E k \in BulkTasks : BulkStep(k)

SpecStale == Init /\ [][NextStale]_vars

\* fs.writeFile rejects in updateDocument, for the Markdown file or (in
\* saveMetadataIndex) for the index: nothing is written by that call, the
\* error goes through syncSingleDocument to the loop, which counts it as
\* failed
BulkWriteFails(k) ==
    LET doc == tasks[k].metadata
    IN  /\ tasks[k].pc \in {"writeFile", "write"}
        /\ tasks' = [tasks EXCEPT ![k] = NoTask]
        /\ bulk' = Counted(k, "throw")
        /\ last' = Did("syncAllDocuments", "throw", "update",
                       doc.confluenceId, doc.id)
        /\ UNCHANGED <<index, files, remote, connConfigured, authenticated,
                       nextId, text>>

\* Bulk sync, one await at a time, with the failures of a sync: the
\* connection removed, the credentials gone, a failing fetch, a failing
\* write.  Pages are fetched by URL while no bulk sync runs.
NextWriteError ==
    \/ \E r \in RemoteIds : RemoteEdit(r)
    \/ ToggleConnection
    \/ Logout
    \/ /\ bulk.pc = "idle"
       /\ \E r \in RemoteIds, authOk \in AuthChoices :
             \E x \in FetchInputs(r, TRUE, SyncCategories, SyncTimes) :
                 FetchByUrl(r, x.category, authOk, x.fetchOk, x.answer, x.t)
    \/ SyncAllStart
    \/ \E c \in Confirms : SyncAllConfirm(c)
    \/ BulkTurn
    \/ \E k \in BulkTasks, fetchOk \in BOOLEAN, t \in SyncTimes :
          BulkFetched(k, fetchOk, t)
    \/ \E k \in BulkTasks : BulkStep(k)
    \/ \E k \in BulkTasks : BulkWriteFails(k)

SpecWriteError == Init /\ [][NextWriteError]_vars

\* The same, where an enabled step of the bulk sync is eventually taken: the
\* loop runs on, every fetch returns or throws, every file operation
\* completes.
FairBulk ==
    /\ SpecBulk
    /\ WF_vars(BulkTurn)
    /\ WF_vars(\E k \in BulkTasks, fetchOk \in BOOLEAN, t \in SyncTimes :
                   BulkFetched(k, fetchOk, t))
    /\ WF_vars(\E k \in BulkTasks : BulkStep(k))

-----------------------------------------------------------------------------
(* Pure functions applied to strings *)

\* the sequences over `chars` of length at most n
Strings(chars, n) == UNION {[1..m -> chars] : m \in 0..n}

\* n copies of the string piece
Repeat(piece, n) ==
    [i \in 1..(n * Len(piece)) |-> piece[((i - 1) % Len(piece)) + 1]]

\* Titles: every short string over a few characters, and some titles around
\* the length limit of a filename.
TitleChars == {"a", " ", "/", "*", "-"}
LongTitles ==
    {Repeat(<<"a">>, MaxFilenameLen), Repeat(<<"a">>, MaxFilenameLen + 1),
     Repeat(<<"a", "/", "/", "b">>, MaxFilenameLen \div 3),
     <<"/", " ">> \o Repeat(<<"a">>, MaxFilenameLen) \o <<"*", "b">>,
     Repeat(<<"a", " ">>, MaxFilenameLen \div 2) \o <<" ", "b">>}
SanitizeInputs == Strings(TitleChars, MaxTitleLen) \cup LongTitles

InitSanitize ==
    /\ InitStore
    /\ text \in {[stage |-> "title", in |-> s] : s \in SanitizeInputs}

\* saveDocument derives the filename from the title
Sanitize ==
    /\ text.stage = "title"
    /\ text' = [stage |-> "filename", in |-> text.in,
                out |-> sanitizeFilename(text.in)]
    /\ UNCHANGED storeVars

SpecSanitize == InitSanitize /\ [][Sanitize]_vars

-----------------------------------------------------------------------------
(* StorageToMarkdownConverter.postprocess *)

\* A string is a sequence of characters.  A character outside ASCII is
\* written by its code point ("U+2014" is one character).

\* the string lit is in s at position i
StartsWithAt(s, i, lit) ==
    /\ i + Len(lit) - 1 <= Len(s)
    /\ SubSeq(s, i, i + Len(lit) - 1) = lit

\* the least position in P, 0 if P is empty
First(P) == IF P = {} THEN 0 ELSE CHOOSE j \in P : \A k \in P : j <= k

\* the position of the first character c in s at or after i, 0 if none
IndexOf(s, c, i) == First({j \in i..Len(s) : s[j] = c})

\* .replace(/lit/g, rep) for a literal: the matches from left to right
RECURSIVE ReplaceFrom(_, _, _, _)
ReplaceFrom(s, i, lit, rep) ==
    LET m == First({j \in i..Len(s) : StartsWithAt(s, j, lit)})
    IN  IF m = 0 THEN SubSeq(s, i, Len(s))
        ELSE SubSeq(s, i, m - 1) \o rep
                \o ReplaceFrom(s, m + Len(lit), lit, rep)

ReplaceAll(s, lit, rep) == ReplaceFrom(s, 1, lit, rep)

\* the named entities and their characters, in the order of the replace calls
NamedEntities ==
    <<<<<<"&", "n", "b", "s", "p", ";">>, <<" ">>>>,
      <<<<"&", "a", "m", "p", ";">>, <<"&">>>>,
      <<<<"&", "l", "t", ";">>, <<"<">>>>,
      <<<<"&", "g", "t", ";">>, <<">">>>>,
      <<<<"&", "q", "u", "o", "t", ";">>, <<"\"">>>>,
      <<<<"&", "#", "3", "9", ";">>, <<"'">>>>,
      <<<<"&", "a", "p", "o", "s", ";">>, <<"'">>>>,
      <<<<"&", "h", "e", "l", "l", "i", "p", ";">>, <<".", ".", ".">>>>,
      <<<<"&", "m", "d", "a", "s", "h", ";">>, <<"U+2014">>>>,
      <<<<"&", "n", "d", "a", "s", "h", ";">>, <<"U+2013">>>>,
      <<<<"&", "l", "s", "q", "u", "o", ";">>, <<"'">>>>,
      <<<<"&", "r", "s", "q", "u", "o", ";">>, <<"'">>>>,
      <<<<"&", "l", "d", "q", "u", "o", ";">>, <<"\"">>>>,
      <<<<"&", "r", "d", "q", "u", "o", ";">>, <<"\"">>>>,
      <<<<"&", "b", "u", "l", "l", ";">>, <<"U+2022">>>>,
      <<<<"&", "c", "o", "p", "y", ";">>, <<"U+00A9">>>>,
      <<<<"&", "r", "e", "g", ";">>, <<"U+00AE">>>>,
      <<<<"&", "t", "r", "a", "d", "e", ";">>, <<"U+2122">>>>>>

RECURSIVE DecodeNamedFrom(_, _)
DecodeNamedFrom(s, n) ==
    IF n > Len(NamedEntities) THEN s
    ELSE LET result == ReplaceAll(s, NamedEntities[n][1], NamedEntities[n][2])
         IN  IF result = s THEN DecodeNamedFrom(s, n + 1)
             ELSE DecodeNamedFrom(result, n + 1)

DecodeNamed(s) == DecodeNamedFrom(s, 1)

\* parseInt(digits, base)
DigitValue(c) ==
    CASE c = "0" -> 0 [] c = "1" -> 1 [] c = "2" -> 2 [] c = "3" -> 3
      [] c = "4" -> 4 [] c = "5" -> 5 [] c = "6" -> 6 [] c = "7" -> 7
      [] c = "8" -> 8 [] c = "9" -> 9
      [] c \in {"a", "A"} -> 10 [] c \in {"b", "B"} -> 11
      [] c \in {"c", "C"} -> 12 [] c \in {"d", "D"} -> 13
      [] c \in {"e", "E"} -> 14 [] c \in {"f", "F"} -> 15
      [] OTHER -> 16

RECURSIVE ParseInt(_, _)
ParseInt(digits, base) ==
    IF digits = << >> THEN 0
    ELSE ParseInt(SubSeq(digits, 1, Len(digits) - 1), base) * base
            + DigitValue(digits[Len(digits)])

\* String.fromCharCode, for the codes of the characters the cleanup looks at;
\* any other code gives a character it does not look at
FromCharCode(code) ==
    CASE code = 10 -> "\n" [] code = 32 -> " " [] code = 38 -> "&"
      [] code = 42 -> "*" [] code = 59 -> ";" [] code = 60 -> "<"
      [] code = 62 -> ">" [] code = 92 -> "\\" [] code = 95 -> "_"
      [] OTHER -> "U+other"

\* the end of the run of digits of the given base that starts at i
RECURSIVE DigitsEnd(_, _, _)
DigitsEnd(s, i, base) ==
    IF i <= Len(s) /\ DigitValue(s[i]) < base
    THEN DigitsEnd(s, i + 1, base) ELSE i

\* .replace(/&#x([0-9a-fA-F]+);/g, ...) when base = 16 and prefix = "&#x",
\* .replace(/&#(\d+);/g, ...) when base = 10 and prefix = "&#"
RECURSIVE DecodeNumericFrom(_, _, _, _)
DecodeNumericFrom(s, i, prefix, base) ==
    LET Digits(j) == j + Len(prefix)
        End(j) == DigitsEnd(s, Digits(j), base)
        m == First({j \in i..Len(s) :
                      /\ StartsWithAt(s, j, prefix)
                      /\ End(j) > Digits(j)
                      /\ End(j) <= Len(s)
                      /\ s[End(j)] = ";"})
    IN  IF m = 0 THEN SubSeq(s, i, Len(s))
        ELSE SubSeq(s, i, m - 1)
                \o <<FromCharCode(ParseInt(SubSeq(s, Digits(m), End(m) - 1),
                                           base))>>
                \o DecodeNumericFrom(s, End(m) + 1, prefix, base)

DecodeNumeric(s) ==
    DecodeNumericFrom(DecodeNumericFrom(s, 1, <<"&", "#", "x">>, 16), 1,
                      <<"&", "#">>, 10)

\* \w
WordChars ==
    {"0", "1", "2", "3", "4", "5", "6", "7", "8", "9", "_",
     "a", "b", "c", "d", "e", "f", "g", "i", "m", "p", "s", "t", "x",
     "A", "B", "C", "D", "E", "F", "G", "I", "M"}

\* \b after the word character at position i - 1
WordEndsAt(s, i) == i > Len(s) \/ s[i] \notin WordChars

\* (?!\/?(a|img)\b) with the i flag, after the "<" at position i
IsAnchorOrImage(s, i) ==
    LET j == IF i + 1 <= Len(s) /\ s[i + 1] = "/" THEN i + 2 ELSE i + 1
    IN  \/ j <= Len(s) /\ s[j] \in {"a", "A"} /\ WordEndsAt(s, j + 1)
        \/ /\ j + 2 <= Len(s)
           /\ s[j] \in {"i", "I"} /\ s[j + 1] \in {"m", "M"}
           /\ s[j + 2] \in {"g", "G"}
           /\ WordEndsAt(s, j + 3)

\* the callback keeps a match that starts with '<a ' or '<img ' or is '</a>'
KeepsTag(match) ==
    \/ StartsWithAt(match, 1, <<"<", "a", " ">>)
    \/ StartsWithAt(match, 1, <<"<", "i", "m", "g", " ">>)
    \/ match = <<"<", "/", "a", ">">>

\* .replace(/<(?!\/?(a|img)\b)[^>]+>/gi, callback)
RECURSIVE StripTagsFrom(_, _)
StripTagsFrom(s, i) ==
    LET End(j) == IndexOf(s, ">", j + 1)
        m == First({j \in i..Len(s) :
                      s[j] = "<" /\ ~IsAnchorOrImage(s, j) /\ End(j) >= j + 2})
        match == SubSeq(s, m, End(m))
    IN  IF m = 0 THEN SubSeq(s, i, Len(s))
        ELSE SubSeq(s, i, m - 1)
                \o (IF KeepsTag(match) THEN match ELSE << >>)
                \o StripTagsFrom(s, End(m) + 1)

StripTags(s) == StripTagsFrom(s, 1)

\* .replace(/\[([^\]]*)\]\(scheme[^)]+\)/g, ...): a bracketed text followed
\* by a target of the given scheme becomes before \o text \o after; `bang`
\* is the "!" of an image
RECURSIVE CollapseTargetsFrom(_, _, _, _, _, _)
CollapseTargetsFrom(s, i, bang, scheme, before, after) ==
    LET Open(j) == j + Len(bang)
        Close(j) == IndexOf(s, "]", Open(j) + 1)
        Target(j) == Close(j) + 1 + Len(scheme)
        End(j) == IndexOf(s, ")", Target(j))
        m == First({j \in i..Len(s) :
                      /\ StartsWithAt(s, j, bang \o <<"[">>)
                      /\ Close(j) > 0
                      /\ StartsWithAt(s, Close(j) + 1, scheme)
                      /\ End(j) >= Target(j) + 1})
    IN  IF m = 0 THEN SubSeq(s, i, Len(s))
        ELSE SubSeq(s, i, m - 1)
                \o before \o SubSeq(s, Open(m) + 1, Close(m) - 1) \o after
                \o CollapseTargetsFrom(s, End(m) + 1, bang, scheme, before, after)

ConfluenceScheme == <<"(", "c", "o", "n", "f", "l", "u", "e", "n", "c", "e", ":", "/", "/">>
AttachmentScheme == <<"(", "a", "t", "t", "a", "c", "h", "m", "e", "n", "t", ":", "/", "/">>

CollapseTargets(s) ==
    CollapseTargetsFrom(
        CollapseTargetsFrom(s, 1, << >>, ConfluenceScheme, << >>, << >>),
        1, <<"!">>, AttachmentScheme, <<"[">>, <<"]">>)

\* .replace(/\n{3,}/g, '\n\n')
RECURSIVE NewlinesEnd(_, _)
NewlinesEnd(s, i) ==
    IF i <= Len(s) /\ s[i] = "\n" THEN NewlinesEnd(s, i + 1) ELSE i

RECURSIVE CollapseNewlinesFrom(_, _)
CollapseNewlinesFrom(s, i) ==
    LET m == First({j \in i..Len(s) :
                      StartsWithAt(s, j, <<"\n", "\n", "\n">>)})
    IN  IF m = 0 THEN SubSeq(s, i, Len(s))
        ELSE SubSeq(s, i, m - 1) \o <<"\n", "\n">>
                \o CollapseNewlinesFrom(s, NewlinesEnd(s, m))

CollapseNewlines(s) == CollapseNewlinesFrom(s, 1)

\* .replace(/\\([_*])/g, '$1')
RECURSIVE UnescapeFrom(_, _)
UnescapeFrom(s, i) ==
    LET m == First({j \in i..Len(s) :
                      s[j] = "\\" /\ j + 1 <= Len(s) /\ s[j + 1] \in {"_", "*"}})
    IN  IF m = 0 THEN SubSeq(s, i, Len(s))
        ELSE SubSeq(s, i, m - 1) \o <<s[m + 1]>> \o UnescapeFrom(s, m + 2)

Unescape(s) == UnescapeFrom(s, 1)

postprocess(markdown) ==
    Trim(Unescape(CollapseNewlines(CollapseTargets(StripTags(
        DecodeNumeric(DecodeNamed(markdown)))))))

\* Markdown to clean up: up to MaxPieces pieces, each an entity, a part of an
\* entity, of a tag or of a link, a backslash, an emphasis character or
\* whitespace.
MarkdownPieces ==
    {<<"&", "a", "m", "p", ";">>,
     <<"a", "m", "p", ";">>,
     <<"&", "l", "t", ";">>,
     <<"b">>,
     <<">">>,
     <<"\\">>,
     <<"_">>,
     <<"*">>,
     <<"\n">>,
     <<" ">>,
     <<"[", "x">>,
     <<"]", "(", "c", "o", "n", "f", "l", "u", "e", "n", "c", "e", ":", "/", "/", "p", ")">>}

RECURSIVE Flatten(_)
Flatten(ps) == IF ps = << >> THEN << >> ELSE Head(ps) \o Flatten(Tail(ps))

PostprocessInputs == {Flatten(ps) : ps \in Strings(MarkdownPieces, MaxPieces)}

InitPostprocess ==
    /\ InitStore
    /\ text \in {[stage |-> "markdown", in |-> s] : s \in PostprocessInputs}

\* convert cleans up the Markdown of a page
Postprocess ==
    /\ text.stage = "markdown"
    /\ text' = [stage |-> "clean", in |-> text.in, out |-> postprocess(text.in)]
    /\ UNCHANGED storeVars

\* the cleaned Markdown is cleaned up again
PostprocessAgain ==
    /\ text.stage = "clean"
    /\ text' = [stage |-> "cleanAgain", in |-> text.in, out |-> text.out,
                again |-> postprocess(text.out)]
    /\ UNCHANGED storeVars

NextPostprocess == Postprocess \/ PostprocessAgain

SpecPostprocess == InitPostprocess /\ [][NextPostprocess]_vars

-----------------------------------------------------------------------------
(* The table rules of addConfluenceRules *)

\* A table as the rules see it: the thead, tbody and tfoot elements in
\* document order, each with its rows; a row is the sequence of the tags of
\* its cells.  A th cell holds the text "h", a td cell the text "d".
CellTags == {"th", "td"}
Sections == <<"thead", "tbody", "tfoot">>

\* the rows of `cells` cells: header cells only, data cells only, or a header
\* cell followed by data cells
HeaderCellsRow(cells) == [i \in 1..cells |-> "th"]
DataCellsRow(cells) == [i \in 1..cells |-> "td"]
RowHeaderRow(cells) == [i \in 1..cells |-> IF i = 1 THEN "th" ELSE "td"]
Rows(cells) == {HeaderCellsRow(cells), DataCellsRow(cells), RowHeaderRow(cells)}

Tables ==
    {t \in UNION {[1..Len(Sections) -> Strings(Rows(cells), MaxRows)] :
                     cells \in 1..MaxCells} :
        \E s \in 1..Len(Sections) : t[s] # << >>}

CellText(tag) == IF tag = "th" THEN <<"h">> ELSE <<"d">>

\* .replace(/\n/g, ' ')
NewlinesToSpaces(s) == [i \in 1..Len(s) |-> IF s[i] = "\n" THEN " " ELSE s[i]]

\* the rule 'tableCell'
tableCell(content) == <<" ">> \o NewlinesToSpaces(Trim(content)) \o <<" ", "|">>

SeparatorCell == <<" ", "-", "-", "-", " ", "|">>

RECURSIVE CellsContent(_)
CellsContent(row) ==
    IF row = << >> THEN << >>
    ELSE tableCell(CellText(Head(row))) \o CellsContent(Tail(row))

\* the rule 'tableRow', for a row of the element `parent`
tableRow(row, parent, isFirstRow) ==
    LET isInHeader == parent = "THEAD"
        hasThCells == \E i \in 1..Len(row) : row[i] = "th"
        isHeaderRow == isInHeader \/ (hasThCells /\ isFirstRow)
        result == <<"|">> \o CellsContent(row) \o <<"\n">>
    IN  IF isHeaderRow /\ isFirstRow
        THEN result \o <<"|">> \o Repeat(SeparatorCell, Len(row)) \o <<"\n">>
        ELSE result

NodeName(section) ==
    CASE section = "thead" -> "THEAD"
      [] section = "tbody" -> "TBODY"
      [] section = "tfoot" -> "TFOOT"

RECURSIVE RowsContent(_, _, _)
RowsContent(rows, parent, n) ==
    IF n > Len(rows) THEN << >>
    ELSE tableRow(rows[n], parent, n = 1) \o RowsContent(rows, parent, n + 1)

\* the rule 'tableBody'
tableBody(content) == content

RECURSIVE SectionsContent(_, _)
SectionsContent(t, s) ==
    IF s > Len(Sections) THEN << >>
    ELSE tableBody(RowsContent(t[s], NodeName(Sections[s]), 1))
            \o SectionsContent(t, s + 1)

\* the rule 'table'
table(content) == <<"\n", "\n">> \o Trim(content) \o <<"\n", "\n">>

\* convert, for a page whose content is the table t
convertTable(t) == postprocess(table(SectionsContent(t, 1)))

InitTable ==
    /\ InitStore
    /\ text \in {[stage |-> "table", in |-> t] : t \in Tables}

RenderTable ==
    /\ text.stage = "table"
    /\ text' = [stage |-> "tableMarkdown", in |-> text.in,
                out |-> convertTable(text.in)]
    /\ UNCHANGED storeVars

SpecTable == InitTable /\ [][RenderTable]_vars

-----------------------------------------------------------------------------
(* StorageToMarkdownConverter.preprocess: the macros *)

\* A page is a nesting of macros: nodes[1] is the outermost macro, nodes[i + 1]
\* is in the rich-text-body of nodes[i], after its parameters, and the
\* innermost body holds text.  A macro has a name and may have a parameter
\* 'title'; the title of the macro at depth i is the i-th of TitleTexts.  A
\* status macro has no rich-text-body; 'excerpt' is a macro preprocess has no
\* conversion for.
BodyMacros == {"info", "panel", "expand", "excerpt"}
MacroNames == BodyMacros \cup {"status"}
TitleTexts == <<"a", "b", "c", "d">>
Details == <<"D", "e", "t", "a", "i", "l", "s">>

Macro(id, name, hasTitle) ==
    [kind |-> "macro", id |-> id, name |-> name, hasTitle |-> hasTitle,
     title |-> << >>]

Pages ==
    UNION {{[i \in 1..depth |-> Macro(i, names[i], titled[i])] :
               names \in {ns \in [1..depth -> MacroNames] :
                             \A i \in 1..(depth - 1) : ns[i] \in BodyMacros},
               titled \in [1..depth -> BOOLEAN]} :
           depth \in 1..MaxDepth}

\* $(selector): the macros with one of the names, in document order
Select(nodes, names) ==
    {i \in 1..Len(nodes) : nodes[i].kind = "macro" /\ nodes[i].name \in names}

\* $el.find('parameter[name="title"]').text(): the text of every title
\* parameter below the element, in document order
TitleBelow(nodes, i) ==
    Pick([j \in 1..Len(nodes) |-> TitleTexts[nodes[j].id]],
         {j \in i..Len(nodes) : nodes[j].kind = "macro" /\ nodes[j].hasTitle})

\* the element that replaces the macro m
Replaced(m, kind, title) == [m EXCEPT !.kind = kind, !.title = title]

\* $el.replaceWith(...) for the first element of the selection.  The other
\* elements of the selection are inside it: replaceWith puts the serialized
\* body in the document, so the elements the loop visits next are no longer
\* in the document, and what it does to them does not show in the result.
EachMacro(nodes, name) ==
    LET i == First(Select(nodes, {name}))
        above == SubSeq(nodes, 1, i - 1)
        below == SubSeq(nodes, i + 1, Len(nodes))
        title == TitleBelow(nodes, i)
    IN  IF i = 0 THEN nodes
        ELSE CASE name = "info" ->
                    above \o <<Replaced(nodes[i], "blockquote", << >>)>> \o below
               [] name = "panel" ->
                    above \o <<Replaced(nodes[i], "blockquote", title)>> \o below
               [] name = "expand" ->
                    above
                        \o <<Replaced(nodes[i], "blockquote",
                                      IF title = << >> THEN Details ELSE title)>>
                        \o below
               [] name = "status" ->
                    above \o <<Replaced(nodes[i], "badge", title)>>

\* the last loop: a macro that is left is replaced by its rich-text-body, or
\* removed when it has none
OtherMacros(nodes) ==
    LET i == First(Select(nodes, MacroNames))
    IN  IF i = 0 THEN nodes
        ELSE IF nodes[i].name \in BodyMacros
        THEN SubSeq(nodes, 1, i - 1) \o SubSeq(nodes, i + 1, Len(nodes))
        ELSE SubSeq(nodes, 1, i - 1)

preprocess(storage) ==
    OtherMacros(EachMacro(EachMacro(EachMacro(EachMacro(
        storage, "info"), "panel"), "expand"), "status"))

InitPreprocess ==
    /\ InitStore
    /\ text \in {[stage |-> "storage", in |-> page] : page \in Pages}

\* convert normalizes the content of a page
Preprocess ==
    /\ text.stage = "storage"
    /\ text' = [stage |-> "normalized", in |-> text.in,
                out |-> preprocess(text.in)]
    /\ UNCHANGED storeVars

SpecPreprocess == InitPreprocess /\ [][Preprocess]_vars

-----------------------------------------------------------------------------
(* StorageToMarkdownConverter.frontmatterToYaml *)

\* .replace(/["\\]/g, '\\$&')
escapeYamlString(str) ==
    Flatten([i \in 1..Len(str) |->
                IF str[i] \in {"\"", "\\"} THEN <<"\\", str[i]>> ELSE <<str[i]>>])

\* the keys of the header, each with the text that follows it in its line
Key_title == <<"t", "i", "t", "l", "e", ":", " ", "\"">>
Key_confluence_id == <<"c", "o", "n", "f", "l", "u", "e", "n", "c", "e", "_", "i", "d", ":", " ", "\"">>
Key_confluence_url == <<"c", "o", "n", "f", "l", "u", "e", "n", "c", "e", "_", "u", "r", "l", ":", " ", "\"">>
Key_space_key == <<"s", "p", "a", "c", "e", "_", "k", "e", "y", ":", " ", "\"">>
Key_version == <<"v", "e", "r", "s", "i", "o", "n", ":", " ">>
Key_synced_at == <<"s", "y", "n", "c", "e", "d", "_", "a", "t", ":", " ", "\"">>
Key_modified_at == <<"m", "o", "d", "i", "f", "i", "e", "d", "_", "a", "t", ":", " ", "\"">>
Key_author == <<"a", "u", "t", "h", "o", "r", ":", " ", "\"">>
Key_labels == <<"l", "a", "b", "e", "l", "s", ":">>
LabelItem == <<" ", " ", "-", " ", "\"">>
NoLabels == <<"l", "a", "b", "e", "l", "s", ":", " ", "[", "]">>
Quote == <<"\"">>

\* `${frontmatter.version}`
VersionText(version) ==
    CASE version = 1 -> <<"1">> [] version = 2 -> <<"2">>
      [] version = 3 -> <<"3">> [] OTHER -> <<"9">>

\* toISOString() of the two dates
IsoDate == <<"2", "0", "2", "4", "-", "0", "1", "-", "0", "1", "T", "0", "0", ":", "0", "0", ":", "0", "0", ".", "0", "0", "0", "Z">>

\* lines.join('\n') + '\n'
RECURSIVE JoinLines(_)
JoinLines(lines) ==
    IF lines = << >> THEN << >>
    ELSE Head(lines) \o <<"\n">> \o JoinLines(Tail(lines))

frontmatterToYaml(frontmatter) ==
    JoinLines(
        <<Key_title \o escapeYamlString(frontmatter.title) \o Quote,
          Key_confluence_id \o frontmatter.confluence_id \o Quote,
          Key_confluence_url \o frontmatter.confluence_url \o Quote,
          Key_space_key \o frontmatter.space_key \o Quote,
          Key_version \o VersionText(frontmatter.version),
          Key_synced_at \o IsoDate \o Quote,
          Key_modified_at \o IsoDate \o Quote,
          Key_author \o escapeYamlString(frontmatter.author) \o Quote>>
        \o (IF Len(frontmatter.labels) > 0
            THEN <<Key_labels>>
                    \o [i \in 1..Len(frontmatter.labels) |->
                           LabelItem \o escapeYamlString(frontmatter.labels[i])
                               \o Quote]
            ELSE <<NoLabels>>))

\* The fields of a document: strings of up to MaxFieldLen characters, with
\* quotes and backslashes among them, and up to MaxLabels labels.
FieldChars == {"a", "\"", "\\"}
FieldValues == Strings(FieldChars, MaxFieldLen)
Frontmatters ==
    [title : FieldValues, confluence_id : FieldValues,
     confluence_url : FieldValues, space_key : FieldValues,
     version : {1}, author : FieldValues,
     labels : Strings(FieldValues, MaxLabels)]

InitFrontmatter ==
    /\ InitStore
    /\ text \in {[stage |-> "frontmatter", in |-> fm] : fm \in Frontmatters}

\* buildMarkdownFile writes the header of the file
FrontmatterToYaml ==
    /\ text.stage = "frontmatter"
    /\ text' = [stage |-> "yaml", in |-> text.in,
                out |-> frontmatterToYaml(text.in)]
    /\ UNCHANGED storeVars

SpecFrontmatter == InitFrontmatter /\ [][FrontmatterToYaml]_vars

-----------------------------------------------------------------------------
(* CloudConfluenceClient: the errors of a document fetch *)

\* The status of a response; NoResponse stands for a fetch that fails without
\* a response.
NoResponse == 0
Statuses == {NoResponse, 200, 401, 403, 404, 429, 500}

\* The Retry-After header of a response: absent, or a number of seconds.
NoHeader == 0
RetryAfterHeaders == {NoHeader} \cup 1..MaxRetryAfter
DefaultRetryAfter == 60

Returned == [type |-> "none", retryAfter |-> 0]
Thrown(type) == [type |-> type, retryAfter |-> 0]

handleErrorResponse(status, header) ==
    CASE status = 401 -> Thrown("AuthenticationError")
      [] status = 403 -> Thrown("AuthenticationError")
      [] status = 404 -> Thrown("DocumentNotFoundError")
      [] status = 429 ->
            [type |-> "RateLimitError",
             retryAfter |-> IF header = NoHeader THEN DefaultRetryAfter
                            ELSE header]
      [] OTHER -> Thrown("DocFetchError")

\* BaseConfluenceClient.request: what the call throws, or Returned
request(status, header) ==
    IF status = NoResponse THEN Thrown("NetworkError")
    ELSE IF status # 200 THEN handleErrorResponse(status, header)
    ELSE Returned

getDocumentById(response) == request(response.status, response.header)

\* CloudConfluenceClient.search: what the call throws, or Returned
search(status) ==
    IF status = NoResponse THEN Thrown("TypeError")
    ELSE IF status # 200 THEN Thrown("Error")
    ELSE Returned

\* the URLs of parseConfluenceUrl: with a page id (/wiki/spaces/../pages/..
\* and pageId=..), with a space and a title (/wiki/display/..), any other
PageIdUrls == {"pages", "viewpage"}
UrlKinds == PageIdUrls \cup {"display", "other"}

getDocumentByUrl(url, searchResponse, response) ==
    IF url \in PageIdUrls THEN getDocumentById(response)
    ELSE IF url = "display"
    THEN IF search(searchResponse.status) # Returned
         THEN search(searchResponse.status)
         ELSE IF searchResponse.results > 0 THEN getDocumentById(response)
         ELSE Thrown("DocumentNotFoundError")
    ELSE Thrown("DocumentNotFoundError")

Responses == [status : Statuses, header : RetryAfterHeaders]
SearchResponses == [status : Statuses, header : RetryAfterHeaders,
                    results : {0, 1}]
Fetches ==
    [by : {"id"} \cup UrlKinds, searchResponse : SearchResponses,
     response : Responses]

InitFetch ==
    /\ InitStore
    /\ text \in {[stage |-> "fetch", in |-> f] : f \in Fetches}

GetDocumentById ==
    /\ text.stage = "fetch"
    /\ text.in.by = "id"
    /\ text' = [stage |-> "fetched", in |-> text.in,
                out |-> getDocumentById(text.in.response)]
    /\ UNCHANGED storeVars

GetDocumentByUrl ==
    /\ text.stage = "fetch"
    /\ text.in.by \in UrlKinds
    /\ text' = [stage |-> "fetched", in |-> text.in,
                out |-> getDocumentByUrl(text.in.by, text.in.searchResponse,
                                         text.in.response)]
    /\ UNCHANGED storeVars

NextFetch == GetDocumentById \/ GetDocumentByUrl

SpecFetch == InitFetch /\ [][NextFetch]_vars

-----------------------------------------------------------------------------
(* debounce *)

\* The debounced function, its timer and the clock.  `timers` are the
\* timeouts that are set, each with the time it is due and the arguments of
\* its callback; a timeout has the number of the call that set it as its id.
\* `calls` and `invoked` record the calls of the debounced function and the
\* invocations of fn.
Queries == {"q1", "q2"}
NoTimeout == 0

InitDebounce ==
    /\ InitStore
    /\ text = [stage |-> "debounce", now |-> 0, timers |-> {},
               timeoutId |-> NoTimeout, calls |-> << >>, invoked |-> << >>]

\* the timeout is left to fire
clearTimeoutNoOp(timers, timeoutId) == timers

clearTimeout(timers, timeoutId) == {timer \in timers : timer.id # timeoutId}

setTimeout(timers, id, args, due) ==
    timers \cup {[id |-> id, args |-> args, due |-> due]}

\* a call of the function that debounce returns
DebouncedCall(args) ==
    /\ text.stage = "debounce"
    /\ Len(text.calls) < MaxCalls
    /\ LET id == Len(text.calls) + 1
           cleared == IF text.timeoutId # NoTimeout
                      THEN clearTimeout(text.timers, text.timeoutId)
                      ELSE text.timers
       IN  text' = [text EXCEPT
               !.timers = setTimeout(cleared, id, args, text.now + Delay),
               !.timeoutId = id,
               !.calls = Append(@, [at |-> text.now, args |-> args])]
    /\ UNCHANGED storeVars

\* a timeout that is due runs its callback, () => fn(...args)
TimeoutFires ==
    /\ text.stage = "debounce"
    /\ \E timer \in text.timers :
          /\ timer.due <= text.now
          /\ text' = [text EXCEPT
                 !.timers = @ \ {timer},
                 !.invoked = Append(@, [at |-> text.now, args |-> timer.args,
                                        call |-> timer.id,
                                        calls |-> Len(text.calls)])]
    /\ UNCHANGED storeVars

\* time passes when no timeout is due
Tick ==
    /\ text.stage = "debounce"
    /\ text.now < MaxClock
    /\ \A timer \in text.timers : timer.due > text.now
    /\ text' = [text EXCEPT !.now = @ + 1]
    /\ UNCHANGED storeVars

NextDebounce ==
    \/ \E args \in Queries : DebouncedCall(args)
    \/ TimeoutFires
    \/ Tick

SpecDebounce == InitDebounce /\ [][NextDebounce]_vars

-----------------------------------------------------------------------------
(* commands/searchDocuments.ts: the search picker *)

\* what the user can have typed: one value too short to search, two to search
SearchValues == {<<"a">>, <<"a", "b">>, <<"c", "d">>}
SortBys == {"relevance", "lastModified", "title"}
NoCursor == "undefined"
NoPending == <<"none">>
SearchOutcomes == {"ok", "AuthenticationError", "Error"}

\* the server's answer to a search: the first page has a next link, the page
\* at its cursor has none
SearchResponse(query, cursor, sortBy) ==
    [results |-> <<[query |-> query, sortBy |-> sortBy,
                    page |-> IF cursor = NoCursor THEN 1 ELSE 2]>>,
     cursor |-> IF cursor = NoCursor THEN "c1" ELSE NoCursor,
     hasMore |-> cursor = NoCursor]

ResultItems(results) ==
    [i \in 1..Len(results) |-> [action |-> "none", result |-> results[i]]]

resultsToQuickPickItems(results, more) ==
    IF Len(results) = 0
    THEN <<[action |-> "no-results", label |-> "No results found"]>>
    ELSE IF more
    THEN Append(ResultItems(results), [action |-> "load-more"])
    ELSE ResultItems(results)

\* the picker when it is shown
InitSearch ==
    /\ InitStore
    /\ text = [stage |-> "search",
               currentQuery |-> << >>,
               currentResults |-> << >>,
               currentCursor |-> NoCursor,
               hasMore |-> FALSE,
               isLoading |-> FALSE,
               currentSortBy |-> "relevance",
               items |-> << >>,
               pending |-> NoPending,
               requests |-> << >>]

\* performSearch up to its await: a query shorter than 2 clears the picker;
\* otherwise client.search is called with the sort order of this moment
performSearch(s, query, cursor) ==
    IF Len(query) < 2
    THEN [s EXCEPT !.items = << >>,
                   !.currentResults = << >>,
                   !.currentCursor = NoCursor,
                   !.hasMore = FALSE]
    ELSE [s EXCEPT !.isLoading = TRUE,
                   !.requests = Append(@, [query |-> query, cursor |-> cursor,
                                           sortBy |-> s.currentSortBy])]

\* a call of performSearch that would send a request has room to do so
CanRequest(query) == Len(query) >= 2 => Len(text.requests) < MaxInFlight

\* onDidChangeValue: the debounced search is armed with the value, in place
\* of the value it was armed with
ChangeValue(value) ==
    /\ value # text.currentQuery
    /\ text' = [text EXCEPT !.pending = value]
    /\ UNCHANGED storeVars

\* the debounce delay has passed: the debounced function runs
DebouncedSearch ==
    /\ text.pending # NoPending
    /\ CanRequest(text.pending)
    /\ text' = performSearch([text EXCEPT !.currentQuery = text.pending,
                                          !.pending = NoPending],
                             text.pending, NoCursor)
    /\ UNCHANGED storeVars

\* onDidTriggerButton: a sort button other than the current one
TriggerButton(sortBy) ==
    /\ sortBy # text.currentSortBy
    /\ CanRequest(text.currentQuery)
    /\ text' = IF Len(text.currentQuery) >= 2
               THEN performSearch([text EXCEPT !.currentSortBy = sortBy,
                                               !.currentResults = << >>,
                                               !.currentCursor = NoCursor],
                                  text.currentQuery, NoCursor)
               ELSE [text EXCEPT !.currentSortBy = sortBy]
    /\ UNCHANGED storeVars

\* onDidAccept on the item 'Load more results...'
AcceptLoadMore ==
    /\ \E i \in 1..Len(text.items) : text.items[i].action = "load-more"
    /\ text.currentCursor # NoCursor
    /\ ~text.isLoading
    /\ CanRequest(text.currentQuery)
    /\ text' = performSearch(text, text.currentQuery, text.currentCursor)
    /\ UNCHANGED storeVars

\* performSearch after its await: client.search of request i returns or
\* throws
SearchReturns(i, outcome) ==
    LET sent == text.requests[i]
        response == SearchResponse(sent.query, sent.cursor, sent.sortBy)
        results == IF sent.cursor # NoCursor
                   THEN text.currentResults \o response.results
                   ELSE response.results
        rest == Splice(text.requests, i)
    IN  /\ text' = IF outcome = "ok"
                   THEN [text EXCEPT
                            !.currentResults = results,
                            !.currentCursor = response.cursor,
                            !.hasMore = response.hasMore,
                            !.items = resultsToQuickPickItems(results,
                                                              response.hasMore),
                            !.isLoading = FALSE,
                            !.requests = rest]
                   ELSE [text EXCEPT
                            !.items = <<[action |-> "no-results",
                                         label |-> outcome]>>,
                            !.isLoading = FALSE,
                            !.requests = rest]
        /\ UNCHANGED storeVars

NextSearch ==
    \/ \E value \in SearchValues : ChangeValue(value)
    \/ DebouncedSearch
    \/ \E sortBy \in SortBys : TriggerButton(sortBy)
    \/ AcceptLoadMore
    \/ \E i \in 1..Len(text.requests), outcome \in SearchOutcomes :
          SearchReturns(i, outcome)

SpecSearch == InitSearch /\ [][NextSearch]_vars

-----------------------------------------------------------------------------
(* Properties of the document store, checked under Spec *)

Positions(idx) == 1..Len(idx)

\* the position in idx of the entry with local id `id`, 0 if none
PositionOfId(idx, id) ==
    LET Test(d) == d.id = id IN FindIndex(idx, Test)

\* C1: the index holds at most one entry for each remote id (confluenceId).
UniqueRemoteId ==
    \A i, j \in Positions(index) :
        index[i].confluenceId = index[j].confluenceId => i = j

\* a tracked page whose file was gone has just been saved again: its entry
\* was replaced, not doubled
SavedAgain ==
    /\ last.call = "save"
    /\ last.out = "resaved"
    /\ Len(index) = 1
    /\ index[1].confluenceId = last.cid
    /\ index[1].id = last.id

\* C2: as long as a remote document stays tracked, the local id and the
\* relativePath of its entry do not change, whatever operation runs.
StableIdentity ==
    [][\A i \in Positions(index) : \A j \in Positions(index') :
          index[i].confluenceId = index'[j].confluenceId
              => /\ index'[j].id = index[i].id
                 /\ index'[j].relativePath = index[i].relativePath]_vars

\* The metadata and the document a step handed to updateDocument.  Outside a
\* bulk sync the metadata is the entry just read from the index; in a bulk
\* sync it is the element of the list taken at the start.
ExistingMetadata ==
    IF last'.cmd = "syncAllDocuments"
    THEN bulk.documents[bulk.i + 1]
    ELSE index[PositionOfId(index, last'.id)]

UpdatedDocument == RemoteDocument(last'.cid)

\* C3: updateDocument writes the file at existingMetadata.relativePath
\* (whatever the new title) and no other file; the entry it stores keeps
\* the local id, remote id, connectionId, relativePath and category of
\* existingMetadata and takes title, version, checksum and labels from the
\* document written; every entry of another document stays as it was, at
\* its place.
UpdateFrame ==
    [][last'.call = "update" =>
          LET m == ExistingMetadata
              d == UpdatedDocument
              k == PositionOfId(index', m.id)
              f == files'[m.relativePath]
          IN  /\ f # NoFile
              /\ f.title = d.title
              /\ f.version = d.version
              /\ files' = [files EXCEPT ![m.relativePath] = f]
              /\ k > 0
              \* id, confluenceId, connectionId, relativePath and category
              \* are those of existingMetadata; syncedAt is the time of the
              \* update, whatever it is
              /\ index'[k] = [m EXCEPT !.title = d.title,
                                       !.version = d.version,
                                       !.labels = d.labels,
                                       !.checksum = computeChecksum(f),
                                       !.syncedAt = index'[k].syncedAt]
              /\ \A j \in Positions(index) :
                    (index[j].id # m.id /\ index[j].confluenceId # m.confluenceId)
                        => j <= Len(index') /\ index'[j] = index[j]]_vars

\* an update has just stored a title that no longer gives the file name,
\* next to the entry of another page
UpdatedWithNewTitle ==
    /\ last.call = "update"
    /\ Len(index) = 2
    /\ \E k \in Positions(index) :
          /\ index[k].id = last.id
          /\ index[k].relativePath # RelativePath(index[k].category, index[k].title)
          /\ index[k].syncedAt = 1
          /\ index[k].labels # << >>

\* C4: after updateDocument with a newer version of a saved page there is
\* exactly one entry for its remote id, with the version of the second
\* document and the digest of the content the update wrote.
OneEntryAfterUpdate ==
    last.call = "update" =>
        /\ Cardinality({i \in Positions(index) :
                           index[i].confluenceId = last.cid}) = 1
        /\ \A i \in Positions(index) :
              index[i].confluenceId = last.cid
                  => /\ index[i].version = remote[last.cid].version
                     /\ files[index[i].relativePath].version = remote[last.cid].version
                     /\ files[index[i].relativePath].confluence_id = last.cid
                     /\ index[i].checksum
                            = computeChecksum(files[index[i].relativePath])

\* a page saved at version 1 has just been updated to version 2
UpdatedToSecondVersion ==
    /\ last.call = "update"
    /\ \E i \in Positions(index) :
          /\ index[i].confluenceId = last.cid
          /\ index[i].version = 2
          /\ files[index[i].relativePath].version = 2

\* C5: saveDocument of a page whose remote id is not in the index appends
\* one entry at the end (a local id no entry has, the page's remote id and
\* version, the digest of the file written) and leaves the entries before
\* it as they were.
SaveAppends ==
    [][(/\ last'.call = "save"
        /\ getDocumentByConfluenceId(index, last'.cid) = 0) =>
          LET n == Len(index) + 1
          IN  /\ Len(index') = n
              /\ SubSeq(index', 1, n - 1) = index
              /\ \A i \in Positions(index) : index[i].id # index'[n].id
              /\ index'[n].id >= nextId
              /\ index'[n].confluenceId = last'.cid
              /\ index'[n].version = remote[last'.cid].version
              /\ index'[n].title = remote[last'.cid].title
              /\ files'[index'[n].relativePath].confluence_id = last'.cid
              /\ index'[n].checksum
                     = computeChecksum(files'[index'[n].relativePath])]_vars

\* a second page has just been saved next to a tracked one
SavedSecondPage ==
    /\ last.call = "save"
    /\ last.out = "saved"
    /\ Len(index) = 2
    /\ index[2].id = last.id
    /\ index[2].confluenceId = last.cid
    /\ index[1].confluenceId # last.cid

\* C6: deleteDocument(id) removes the entry with that local id and no other,
\* also when the Markdown file is already absent; with no such entry it
\* changes neither the index nor the files.
DeleteFrame ==
    [][last'.cmd = "deleteDocument" =>
          LET k == PositionOfId(index, last'.id)
          IN  IF k = 0
              THEN index' = index /\ files' = files
              ELSE /\ index' = Splice(index, k)
                   /\ \A j \in Positions(index') : index'[j].id # last'.id
                   /\ ~FileExists(files', index[k].relativePath)
                   /\ \A p \in AllPaths \ {index[k].relativePath} :
                         files'[p] = files[p]]_vars

\* an entry whose file was already gone has just been deleted; another stays
DeletedWithFileMissing ==
    /\ last.cmd = "deleteDocument"
    /\ last.out = "deletedFileMissing"
    /\ Len(index) = 1

\* C7: at most one index entry has any given relativePath.
UniqueRelativePath ==
    \A i, j \in Positions(index) :
        index[i].relativePath = index[j].relativePath => i = j

-----------------------------------------------------------------------------
(* Properties of the sync commands, checked under SpecSync *)

\* C8: a sync that fetches a page whose version is not above the version
\* recorded in the page's index entry reports 'skipped' and writes neither
\* the file nor the index; it updates (and reports 'synced') only when the
\* remote version is above the recorded one.
SkipRule ==
    [][(/\ last'.cmd \in {"syncDocument", "syncAllDocuments"}
        /\ last'.call \in {"fetch", "update"}
        /\ getDocumentByConfluenceId(index, last'.cid) > 0) =>
          LET e == getDocumentByConfluenceId(index, last'.cid)
          IN  IF remote[last'.cid].version <= index[e].version
              THEN /\ last'.out = "skipped"
                   /\ index' = index
                   /\ files' = files
              ELSE last'.out = "synced"]_vars

\* C9: while a bulk sync is not cancelled, each turn of the loop attempts
\* the next document of the list taken at the start, whatever the outcomes
\* of the documents before it (a thrown error included), and the loop ends
\* only when the whole list was attempted, each document once, in order.
Attempted(b) ==
    /\ Len(b.log) = b.i
    /\ \A k \in 1..Len(b.log) : b.log[k].k = k

BulkAttemptsAll ==
    [][(bulk.pc = "loop" /\ bulk' # bulk) =>
          \/ bulk' = [bulk EXCEPT !.cancel = TRUE]
          \/ IF bulk.cancel \/ bulk.i >= Len(bulk.documents)
             THEN /\ bulk'.pc = "idle"
                  /\ Attempted(bulk)
                  /\ ~bulk.cancel => Len(bulk.log) = Len(bulk.documents)
             ELSE /\ bulk'.pc = "loop"
                  /\ bulk'.documents = bulk.documents
                  /\ bulk'.cancel = bulk.cancel
                  /\ bulk'.i = bulk.i + 1
                  /\ SubSeq(bulk'.log, 1, bulk.i) = bulk.log
                  /\ Attempted(bulk')]_vars

\* the first document of a bulk sync threw and the second was attempted
AttemptedAfterThrow ==
    /\ bulk.pc = "loop"
    /\ ~bulk.cancel
    /\ Len(bulk.documents) = 2
    /\ Len(bulk.log) = 2
    /\ bulk.log[1].out = "throw"
    /\ bulk.log[2].k = 2

\* C10: every attempt of a bulk sync adds one to exactly one of synced,
\* skipped and failed: a 'synced' result to synced, a 'skipped' result to
\* skipped, a thrown error to failed; so the three add up to the number of
\* attempts, and to the length of the list when the loop ran to its end
\* without being cancelled.
Outcomes(b, out) == Cardinality({k \in 1..Len(b.log) : b.log[k].out = out})

CountersPartition ==
    bulk.pc = "loop" =>
        /\ bulk.synced = Outcomes(bulk, "synced")
        /\ bulk.skipped = Outcomes(bulk, "skipped")
        /\ bulk.failed = Outcomes(bulk, "throw")
        /\ bulk.synced + bulk.skipped + bulk.failed = Len(bulk.log)
        /\ Len(bulk.log) = bulk.i
        /\ (~bulk.cancel /\ bulk.i >= Len(bulk.documents))
               => bulk.synced + bulk.skipped + bulk.failed = Len(bulk.documents)

\* a bulk sync of two documents has run to its end with one failure and one
\* document synced
BulkEndedMixed ==
    /\ bulk.pc = "loop"
    /\ ~bulk.cancel
    /\ Len(bulk.documents) = 2
    /\ bulk.i = 2
    /\ bulk.failed = 1
    /\ bulk.synced = 1

-----------------------------------------------------------------------------
(* Bulk sync and missing files (SpecMissingFile) *)

\* C11: in bulk sync a document whose Markdown file is missing is counted
\* as skipped and never as failed, and is neither fetched nor rewritten,
\* whatever the state of its connection and of the credentials.
MissingFileSkipped ==
    [][(/\ last'.cmd = "syncAllDocuments"
        /\ last'.out \in {"synced", "skipped", "throw"}
        /\ ~FileExists(files, bulk.documents[bulk.i + 1].relativePath))
          => /\ last'.out = "skipped"
             /\ last'.call = "none"
             /\ bulk'.skipped = bulk.skipped + 1
             /\ bulk'.failed = bulk.failed
             /\ index' = index
             /\ files' = files]_vars

-----------------------------------------------------------------------------
(* Concurrent mutations (SpecStore) and crashes (SpecCrash) *)

\* task's own entry: the one updateMetadataIndex replaces, or the one
\* deleteDocument removes
Own(task, d) ==
    d.id = task.metadata.id \/ d.confluenceId = task.metadata.confluenceId

Entries(idx) == {idx[i] : i \in Positions(idx)}

\* C13: two store mutations running at the same time can interleave their
\* load-index and write-index steps, and nothing prevents it: the index a
\* mutation writes is the one it loaded with its own change, so whatever
\* another mutation wrote between the load and the write is lost.
LostUpdate ==
    [][\A k \in CommandTasks :
          (tasks[k].pc = "write" /\ tasks'[k] = NoTask)
            => LET task == tasks[k]
               IN  {d \in Entries(index') : ~Own(task, d)}
                       = {d \in Entries(task.loaded) : ~Own(task, d)}]_vars

\* two saves, of r1 and of r2, have both completed, both files are on disk,
\* and the index has the entry of only one of them
LostUpdateHappened ==
    /\ \A k \in Owners : tasks[k] = NoTask
    /\ nextId = 3
    /\ last.out = "write"
    /\ last.call = "save"
    /\ \A r \in RemoteIds :
          \E p \in AllPaths : FileExists(files, p) /\ files[p].confluence_id = r
    /\ Len(index) = 1

\* C14: saveDocument and updateDocument write the Markdown file, then load
\* the index, then write the index: the file write changes no index entry
\* and the index is written only after the file; a crash in between leaves
\* the new file with the index not yet reflecting it.
FileBeforeIndex ==
    [][\A k \in CommandTasks :
          (/\ tasks[k].pc # "none"
           /\ tasks[k].kind \in {"save", "update"}
           /\ tasks'[k] # tasks[k]
           /\ last'.cmd # "crash")
            => LET task == tasks[k]
               IN  CASE task.pc = "writeFile" ->
                          /\ task.trail = << >>
                          /\ index' = index
                          /\ files' = [files EXCEPT ![task.metadata.relativePath]
                                                       = task.content]
                     [] task.pc = "load" ->
                          /\ task.trail = <<"writeFile">>
                          /\ index' = index
                          /\ files' = files
                     [] task.pc = "write" ->
                          /\ task.trail = <<"writeFile", "load">>
                          /\ files' = files
                     [] OTHER -> FALSE]_vars

\* the host died during the only update: the file has the new version, the
\* entry still has the old version and the old checksum
CrashedBetween ==
    /\ last.cmd = "crash"
    /\ nextId = 2
    /\ Len(index) = 1
    /\ FileExists(files, index[1].relativePath)
    /\ files[index[1].relativePath].version > index[1].version
    /\ index[1].checksum # computeChecksum(files[index[1].relativePath])

-----------------------------------------------------------------------------
(* Bulk sync, one await at a time (SpecBulk) *)

\* the documents of the running bulk sync that are being fetched or written
InFlight == {k \in BulkTasks : tasks[k] # NoTask}

\* C12: the cancellation signal is checked before each document: once
\* cancellation is requested no document is started any more, and the turn
\* of the loop that sees the signal ends the loop with the index and the
\* files as they are: what was synced stays, the rest is untouched.
CancelStops ==
    [][bulk.cancel =>
          /\ \A k \in BulkTasks : tasks[k] = NoTask => tasks'[k] = NoTask
          /\ (bulk.pc = "loop" /\ last'.cmd = "syncAllDocuments")
                => /\ last'.out = "summary"
                   /\ bulk' = Idle
                   /\ index' = index
                   /\ files' = files]_vars

\* the loop stopped on cancellation before a stale document, after it had
\* synced another: the first is at the remote version, the second is not
CancelledWithWorkLeft ==
    /\ last.out = "summary"
    /\ last.cid # "none"
    /\ \E i, j \in Positions(index) :
          /\ index[i].confluenceId = last.cid
          /\ index[i].version < remote[last.cid].version
          /\ index[j].confluenceId # last.cid
          /\ index[j].version = 2
          /\ files[index[j].relativePath].version = 2
          /\ files[index[j].relativePath].confluence_id = index[j].confluenceId

\* C15: during a bulk sync at most one document is being fetched or written
\* at any time: it is the document after the i already counted, and the
\* loop waits for it.
OneAtATime ==
    /\ Cardinality(InFlight) <= 1
    /\ \A k \in InFlight :
          /\ bulk.pc = "sync"
          /\ k[2] = bulk.i + 1
          /\ Len(bulk.log) = bulk.i

\* the second document of the list is being written, the first was synced
SecondInFlight ==
    /\ tasks[<<"bulk", 2>>] # NoTask
    /\ tasks[<<"bulk", 2>>].pc = "write"
    /\ bulk.log = <<[k |-> 1, out |-> "synced"]>>

\* C16: bulk sync always terminates: when every fetch returns or throws, a
\* running loop reaches its end (or sees the cancellation) and the summary
\* is reported.
BulkTerminates ==
    (bulk.pc \in {"loop", "sync"}) ~> (bulk.pc = "idle" /\ last.out = "summary")

\* the loop ran to the end of its list and the summary was reported, with
\* two documents tracked
SummaryAtEndOfList ==
    /\ last.out = "summary"
    /\ last.cid = "none"
    /\ bulk = Idle
    /\ Len(index) = 2

-----------------------------------------------------------------------------
(* Filenames (SpecSanitize) *)

\* C20: the filename derived from a title is non-empty, at most 100
\* characters long and has none of the characters / \ : * ? " < > | ; a
\* title made only of those characters, or only of whitespace, gives
\* 'untitled'.
SanitizedFilename ==
    text.stage = "filename" =>
        /\ Len(text.out) >= 1
        /\ Len(text.out) <= MaxFilenameLen
        /\ \A i \in 1..Len(text.out) : text.out[i] \notin SpecialChars
        /\ ((\A i \in 1..Len(text.in) : text.in[i] \in SpecialChars)
             \/ (\A i \in 1..Len(text.in) : text.in[i] \in Whitespace))
                => text.out = Untitled

\* a title longer than the limit, with characters to replace, was cut
TruncatedFilename ==
    /\ text.stage = "filename"
    /\ Len(text.in) > MaxFilenameLen
    /\ \E i \in 1..Len(text.in) : text.in[i] \in SpecialChars
    /\ Len(text.out) = MaxFilenameLen

-----------------------------------------------------------------------------
(* The cleanup of the converted Markdown (SpecPostprocess) *)

\* C17: post-processing is idempotent: post-processing a post-processed
\* string gives the same string.
PostprocessIdempotent ==
    text.stage = "cleanAgain" => text.again = text.out

-----------------------------------------------------------------------------
(* Tables (SpecTable) *)

\* the lines of a string
RECURSIVE LinesOf(_)
LinesOf(s) ==
    LET e == IndexOf(s, "\n", 1)
    IN  IF e = 0 THEN <<s>>
        ELSE <<SubSeq(s, 1, e - 1)>> \o LinesOf(SubSeq(s, e + 1, Len(s)))

SeparatorRow(cells) == <<"|">> \o Repeat(SeparatorCell, cells)

\* the positions of the separator rows among the lines of md
SeparatorLines(md) ==
    {i \in 1..Len(LinesOf(md)) :
        \E cells \in 1..MaxCells : LinesOf(md)[i] = SeparatorRow(cells)}

\* the rows of the table t in document order, each with its section
RECURSIVE TableRowsFrom(_, _)
TableRowsFrom(t, s) ==
    IF s > Len(Sections) THEN << >>
    ELSE [i \in 1..Len(t[s]) |-> [section |-> Sections[s], cells |-> t[s][i]]]
            \o TableRowsFrom(t, s + 1)

TableRows(t) == TableRowsFrom(t, 1)

IsHeaderRow(r) ==
    r.section = "thead" \/ \E i \in 1..Len(r.cells) : r.cells[i] = "th"

\* C18: the Markdown of a table has exactly one separator row; it follows the
\* header row (the first row with header cells) directly and has one cell per
\* cell of that row; no later row is followed by a separator.
OneSeparatorRow ==
    text.stage = "tableMarkdown" =>
        LET rows == TableRows(text.in)
            lines == LinesOf(text.out)
            headers == {i \in 1..Len(rows) : IsHeaderRow(rows[i])}
        IN  /\ Cardinality(SeparatorLines(text.out)) = 1
            /\ \A h \in headers :
                  (\A g \in headers : h <= g) =>
                      /\ SeparatorLines(text.out) = {h + 1}
                      /\ lines[h + 1] = SeparatorRow(Len(rows[h].cells))

-----------------------------------------------------------------------------
(* Nested macros (SpecPreprocess) *)

\* the title the macro m of a page has by its own parameter
OwnTitle(m) ==
    IF m.hasTitle THEN <<TitleTexts[m.id]>>
    ELSE IF m.name = "expand" THEN Details ELSE << >>

\* C19: whatever the nesting of the macros, the normalized page has no macro
\* left, and the title of each rewritten macro is the one of its own
\* parameter, not one of a macro nested in it.
NestedMacrosNormalized ==
    text.stage = "normalized" =>
        \A i \in 1..Len(text.out) :
            /\ text.out[i].kind # "macro"
            /\ text.out[i].name \in {"panel", "expand", "status"}
                  => text.out[i].title = OwnTitle(text.out[i])

-----------------------------------------------------------------------------
(* The ends of a filename (SpecSanitize) *)

\* C21: the filename derived from a title neither begins nor ends with '-'
\* or with whitespace, and has no two '-' in a row.
FilenameEdgesClean ==
    text.stage = "filename" =>
        /\ text.out[1] \notin Whitespace \cup {"-"}
        /\ text.out[Len(text.out)] \notin Whitespace \cup {"-"}
        /\ \A i \in 1..(Len(text.out) - 1) :
              ~(text.out[i] = "-" /\ text.out[i + 1] = "-")

-----------------------------------------------------------------------------
(* The header of a file (SpecFrontmatter) *)

Invalid == <<"invalid">>

\* the value of the double-quoted string that starts at position i of the
\* line s, after its opening quote: a backslash takes the next character as
\* it is, a quote ends the value and must end the line
RECURSIVE ReadQuoted(_, _, _)
ReadQuoted(s, i, value) ==
    IF i > Len(s) THEN Invalid
    ELSE IF s[i] = "\\"
    THEN IF i + 1 <= Len(s)
         THEN ReadQuoted(s, i + 2, value \o <<s[i + 1]>>) ELSE Invalid
    ELSE IF s[i] = "\""
    THEN IF i = Len(s) THEN value ELSE Invalid
    ELSE ReadQuoted(s, i + 1, value \o <<s[i]>>)

\* the value read back from the line that starts with key
ReadField(line, key) ==
    IF StartsWithAt(line, 1, key) THEN ReadQuoted(line, Len(key) + 1, << >>)
    ELSE Invalid

\* C22: every string field of the header (title, remote id, remote url,
\* space key, author, each label) is written with its quotes and backslashes
\* escaped: its line reads back as the value of the field, and ends with it.
HeaderFieldsEscaped ==
    text.stage = "yaml" =>
        LET lines == LinesOf(text.out)
            fm == text.in
        IN  /\ ReadField(lines[1], Key_title) = fm.title
            /\ ReadField(lines[2], Key_confluence_id) = fm.confluence_id
            /\ ReadField(lines[3], Key_confluence_url) = fm.confluence_url
            /\ ReadField(lines[4], Key_space_key) = fm.space_key
            /\ ReadField(lines[8], Key_author) = fm.author
            /\ \A i \in 1..Len(fm.labels) :
                  ReadField(lines[9 + i], LabelItem) = fm.labels[i]

-----------------------------------------------------------------------------
(* The errors of a document fetch (SpecFetch) *)

\* the responses the fetch f has received, in order
Received(f) ==
    IF f.by = "id" \/ f.by \in PageIdUrls THEN <<f.response>>
    ELSE IF f.by = "display"
    THEN IF f.searchResponse.status = 200 /\ f.searchResponse.results > 0
         THEN <<[status |-> 200, header |-> NoHeader], f.response>>
         ELSE <<[status |-> f.searchResponse.status,
                 header |-> f.searchResponse.header]>>
    ELSE << >>

\* the error that a response must surface as
TypedError(response) ==
    CASE response.status \in {401, 403} -> "AuthenticationError"
      [] response.status = 404 -> "DocumentNotFoundError"
      [] response.status = 429 -> "RateLimitError"
      [] OTHER -> "any"

\* C23: a fetch by id or by URL that receives a 401 or 403 response throws an
\* AuthenticationError, a 404 a DocumentNotFoundError, a 429 a RateLimitError
\* with the Retry-After value.
TypedFetchErrors ==
    text.stage = "fetched" =>
        \A i \in 1..Len(Received(text.in)) :
            LET response == Received(text.in)[i]
            IN  TypedError(response) # "any" =>
                    /\ text.out.type = TypedError(response)
                    /\ response.status = 429 /\ response.header # NoHeader
                          => text.out.retryAfter = response.header

-----------------------------------------------------------------------------
(* Files that are not tracked (SpecNotTracked) *)

Untracked(p) == \A i \in Positions(index) : index[i].relativePath # p

\* C24: syncDocument on a file whose relative path has no entry in the index
\* reports 'not tracked': it fetches nothing and changes neither the index
\* nor a file.
UntrackedSyncIsNoOp ==
    [][\A p \in AllPaths, authOk \in BOOLEAN, fetchOk \in BOOLEAN,
          t \in SyncTimes :
          (Untracked(p) /\ SyncDocument(p, authOk, fetchOk, t))
              => /\ last'.out = "nottracked"
                 /\ last'.call = "none"
                 /\ UNCHANGED <<index, files, remote, authenticated>>]_vars

\* syncDocument has reported 'not tracked' while other files are tracked
ReportedNotTracked ==
    /\ last.cmd = "syncDocument"
    /\ last.out = "nottracked"
    /\ Len(index) >= 1

-----------------------------------------------------------------------------
(* Debounced calls (SpecDebounce) *)

\* C25: fn is not invoked by a call of the debounced function; it is invoked
\* once for a burst of calls, with the arguments of the last call, when the
\* delay has passed since that call, and a new call restarts the delay.
DebouncedOnce ==
    text.stage = "debounce" =>
        /\ \A i \in 1..Len(text.invoked) :
              LET e == text.invoked[i]
              IN  /\ e.call = e.calls
                  /\ e.args = text.calls[e.call].args
                  /\ e.at = text.calls[e.call].at + Delay
                  /\ \A j \in 1..Len(text.invoked) :
                        text.invoked[j].call = e.call => j = i
        /\ (Len(text.calls) > 0
              /\ text.now > text.calls[Len(text.calls)].at + Delay)
              => \E i \in 1..Len(text.invoked) :
                    text.invoked[i].call = Len(text.calls)

\* fn was invoked once after two calls, the second before the delay of the
\* first had passed
InvokedAfterBurst ==
    /\ text.stage = "debounce"
    /\ Len(text.calls) = 2
    /\ text.calls[2].at > text.calls[1].at
    /\ text.calls[2].at < text.calls[1].at + Delay
    /\ text.calls[1].args # text.calls[2].args
    /\ Len(text.invoked) = 1
    /\ text.invoked[1].args = text.calls[2].args

-----------------------------------------------------------------------------
(* Checksums (SpecCommands) *)

\* the checksum of every entry is the digest of its file
ChecksumsOf(idx, fls) ==
    \A i \in Positions(idx) :
        idx[i].checksum = computeChecksum(fls[idx[i].relativePath])

\* no two entries have the same relativePath
NoSharedPath(idx) ==
    \A i, j \in Positions(idx) : idx[i].relativePath = idx[j].relativePath => i = j

-----------------------------------------------------------------------------
(* updateDocument and the number of entries (SpecStale) *)

-----------------------------------------------------------------------------
(* The recorded version (SpecSync) *)

\* the version the index records for remote page r, 0 if it has no entry
VersionOf(idx, r) ==
    LET Test(d) == d.confluenceId = r
        i == FindIndex(idx, Test)
    IN  IF i = 0 THEN 0 ELSE idx[i].version

\* C28: across single and bulk syncs the version recorded in a document's
\* entry never decreases, and it strictly increases each time a sync of that
\* document reports 'synced'.
VersionGrowsOnSynced ==
    [][\A r \in RemoteIds :
          (VersionOf(index, r) > 0 /\ VersionOf(index', r) > 0)
              => /\ VersionOf(index', r) >= VersionOf(index, r)
                 /\ (last'.out = "synced" /\ last'.cid = r)
                        => VersionOf(index', r) > VersionOf(index, r)]_vars

-----------------------------------------------------------------------------
(* A sync that fails (SpecWriteError) *)

\* C29: when the sync of a document fails, its index entry is unchanged (it
\* is the metadata the bulk sync listed) and its Markdown file has the
\* content whose checksum the entry records.  Stated for entries that share
\* their file with no other entry.
FailedSyncLeavesDocument ==
    (last.cmd = "syncAllDocuments" /\ last.out = "throw" /\ NoSharedPath(index))
        => \A i \in Positions(index) :
              index[i].confluenceId = last.cid
                  => /\ index[i] = bulk.documents[bulk.i]
                     /\ index[i].checksum
                            = computeChecksum(files[index[i].relativePath])

-----------------------------------------------------------------------------
(* The search picker (SpecSearch) *)

\* C30: whenever no search request is in flight, the results the picker
\* shows are those of the most recently issued query and sort order.
ShowsLatestSearch ==
    Len(text.requests) = 0
        => \A i \in 1..Len(text.items) :
              text.items[i].action = "none"
                  => /\ text.items[i].result.query = text.currentQuery
                     /\ text.items[i].result.sortBy = text.currentSortBy

=============================================================================
